---- MODULE Spec2Model ----
(***************************************************************************)
(* A model of howto's registry assembly (internal/registry), document and  *)
(* configuration loading (internal/loader, internal/config) and the        *)
(* change-detecting CachedRegistryLoader (internal/app), the howto command *)
(* (cmd/howto) and the MCP server (internal/mcp).                          *)
(*                                                                         *)
(* The specifications of the module:                                       *)
(*   SpecBuild    BuildRegistry as a pure function of bounded inputs.      *)
(*   Spec         CachedRegistryLoader.Load called again and again while   *)
(*                the two source directories are being modified.           *)
(*   SpecReload   Spec, recording the files at each successful return.     *)
(*   SpecCallers  Load called by concurrent callers that change the        *)
(*                registries they are given.                               *)
(*   SpecRoots    Spec started with both source roots missing, or with a   *)
(*                stray configuration file in the global library.          *)
(*   SpecCli      one run of the howto command over every filesystem,      *)
(*                argument list and environment within the bounds.         *)
(*   SpecServe    the MCP server reading messages and calling Load while   *)
(*                the global library changes.                              *)
(*   SpecList     List, GetAll and DocumentsToList over every registry of  *)
(*                three names, with and without source paths.              *)
(*   SpecBuildList    SpecBuild followed by List, GetAll, DocumentsToList. *)
(*   SpecWalk     one run of the command over a library with a capital     *)
(*                suffix, a subdirectory and entries that are no document. *)
(*   SpecDocs     one run of the command and Load called again and again   *)
(*                over libraries with documents that lack a description.   *)
(*   SpecParse    extractFrontmatter on the bytes of every document file   *)
(*                with a metadata block and a body within the bounds.      *)
(***************************************************************************)
EXTENDS Integers, Sequences, FiniteSets, TLC

VARIABLES
    \* ---- SpecBuild: the arguments and the result of BuildRegistry
    globalDocs, projectDocs, projectConfig, built, phase,
    listed,     \* what List, GetAll and DocumentsToList returned for built
    \* ---- Spec: the filesystem
    now,        \* the filesystem clock, in ticks of its timestamp granularity
    changes,    \* number of filesystem changes so far
    dirStat,    \* per source directory: "missing", "dir", "denied" (os.Stat
                \* of it fails) or "unreadable" (mode 000: os.Stat of it
                \* succeeds, reading and searching it fail)
    files,      \* per source directory: file name -> [mtime, data]
    \* ---- Spec: the CachedRegistryLoader object and the heap of Go maps
    mu,         \* holder of c.mu, or NoCaller
    cached,     \* c.cached: address of a map, or Nil
    signature,  \* c.signature
    heap,       \* address -> registry (the content of each allocated map)
    \* ---- Spec: the callers of Load
    pc,         \* per caller: position inside Load
    loc,        \* per caller: the local variables of Load and LoadRegistry
    ret,        \* per caller: the (registry address, error) last returned
    \* ---- Spec: history variables (never read by the modelled code)
    calls,      \* number of Load calls started
    hist,       \* record of observations, see HistInit
    \* ---- SpecCli: one run of the howto command
    cli,        \* arguments, environment, locals and outcome of run()
    \* ---- SpecServe: the MCP server
    srv,        \* input, output and position of Server.Serve
    \* ---- SpecParse: one call of extractFrontmatter
    parse       \* the bytes given to extractFrontmatter and what it returned

bvars == <<globalDocs, projectDocs, projectConfig, built, phase, listed>>
fsvars == <<now, changes, dirStat, files>>
lvars == <<mu, cached, signature, heap, pc, loc, ret, calls, hist>>
tvars == <<cli, srv, parse>>
vars == <<globalDocs, projectDocs, projectConfig, built, phase, listed,
          now, changes, dirStat, files, mu, cached, signature, heap, pc, loc, ret,
          calls, hist, cli, srv, parse>>

(***************************************************************************)
(* Bounds of the model.                                                    *)
(***************************************************************************)
MaxDocs == 2        \* longest globalDocs / projectDocs given to BuildRegistry
MaxRequire == 2     \* longest require list given to BuildRegistry
MaxChanges == 2     \* filesystem changes in one behaviour
MaxCalls == 2       \* Load calls started in one behaviour

(***************************************************************************)
(* parser.Source and parser.Document                                       *)
(***************************************************************************)
SourceGlobal == "global"
SourceProjectScoped == "project"

Document(name, description, required, content, source, filePath) ==
    [Name |-> name, Description |-> description, Required |-> required,
     Content |-> content, Source |-> source, FilePath |-> filePath]

Names == {"a", "b"}

(***************************************************************************)
(* registry.Registry: a Go map from name to Document, as a function whose  *)
(* domain is the set of keys.                                              *)
(***************************************************************************)
EmptyRegistry == [n \in {} |-> 0]

Put(reg, name, doc) ==
    [n \in (DOMAIN reg) \cup {name} |-> IF n = name THEN doc ELSE reg[n]]

Remove(reg, name) == [n \in (DOMAIN reg) \ {name} |-> reg[n]]

\* a lookup that finds nothing
Has_Never(reg, name) == FALSE

Has(reg, name) == name \in DOMAIN reg

Count(reg) == Cardinality(DOMAIN reg)

(***************************************************************************)
(* config.ProjectConfig                                                    *)
(***************************************************************************)
ProjectConfig(require) == [Require |-> require]

\* a HasRequire that looks at the first name of the list only
HasRequire_FirstOnly(c, name) == Len(c.Require) > 0 /\ c.Require[1] = name

HasRequire(c, name) == \E i \in 1..Len(c.Require) : c.Require[i] = name

(***************************************************************************)
(* registry.BuildRegistry: the first loop inserts the global documents     *)
(* that pass the filter, the second inserts every project document.        *)
(***************************************************************************)
RECURSIVE AddGlobalDocs(_, _, _)
AddGlobalDocs(registry, docs, config) ==
    IF docs = <<>> THEN registry
    ELSE LET doc == Head(docs) IN
         IF ~doc.Required /\ ~HasRequire(config, doc.Name)
         THEN AddGlobalDocs(registry, Tail(docs), config)
         ELSE AddGlobalDocs(Put(registry, doc.Name, doc), Tail(docs), config)

RECURSIVE AddProjectDocs(_, _)
AddProjectDocs(registry, docs) ==
    IF docs = <<>> THEN registry
    ELSE AddProjectDocs(Put(registry, Head(docs).Name, Head(docs)), Tail(docs))

\* Mutant: the filter of the first loop is missing.
BuildRegistry_NoFilter(gDocs, pDocs, config) ==
    AddProjectDocs(AddProjectDocs(EmptyRegistry, gDocs), pDocs)

\* Mutant: the two loops run in the opposite order, so global overrides project.
BuildRegistry_GlobalLast(gDocs, pDocs, config) ==
    AddGlobalDocs(AddProjectDocs(EmptyRegistry, pDocs), gDocs, config)

\* Mutant: the filter looks at the require list only.
BuildRegistry_RequireOnly(gDocs, pDocs, config) ==
    AddProjectDocs(
        AddGlobalDocs(EmptyRegistry,
                      [i \in 1..Len(gDocs) |-> [gDocs[i] EXCEPT !.Required = FALSE]],
                      config),
        pDocs)

\* Mutant: an entry that is there is not overwritten, the first of several
\* documents of one name wins within each list.
Reverse(q) == [i \in 1..Len(q) |-> q[Len(q) + 1 - i]]

BuildRegistry_FirstWins(gDocs, pDocs, config) ==
    AddProjectDocs(AddGlobalDocs(EmptyRegistry, Reverse(gDocs), config), Reverse(pDocs))

BuildRegistry(gDocs, pDocs, config) ==
    AddProjectDocs(AddGlobalDocs(EmptyRegistry, gDocs, config), pDocs)

\* a Get that reports every name as found
Get_AlwaysOk(reg, name) ==
    IF name \in DOMAIN reg THEN [doc |-> reg[name], ok |-> TRUE]
    ELSE [doc |-> Document("", "", FALSE, "", SourceGlobal, ""), ok |-> TRUE]

\* Registry.Get: (document, ok)
Get(reg, name) ==
    IF name \in DOMAIN reg THEN [doc |-> reg[name], ok |-> TRUE]
    ELSE [doc |-> Document("", "", FALSE, "", SourceGlobal, ""), ok |-> FALSE]

(***************************************************************************)
(* Registry.List, Registry.GetAll and app.DocumentsToList.  Go compares    *)
(* strings byte by byte; Rank gives that order on the strings of the       *)
(* model: "." < "a" < "a.md" < "b" < "b.md" < "c".                         *)
(***************************************************************************)
Rank(str) ==
    CASE str = "." -> 0
      [] str = "a" -> 1
      [] str = "a.md" -> 2
      [] str = "b" -> 3
      [] str = "b.md" -> 4
      [] str = "c" -> 5

\* filepath.Base: the last element of the path, "." for the empty path
Base(path) ==
    CASE path = "" -> "."
      [] path \in {"global/a.md", "project/a.md"} -> "a.md"
      [] path \in {"global/b.md", "project/b.md"} -> "b.md"
      [] path \in {"global/sub/a.md", "project/sub/a.md"} -> "a.md"
      [] path \in {"global/B.MD", "project/B.MD"} -> "B.MD"
      [] path \in {"global/d.md", "project/d.md"} -> "d.md"
      [] path \in {"global/notes.txt", "project/notes.txt"} -> "notes.txt"
      [] path \in {"global/config.yaml", "project/config.yaml"} -> "config.yaml"

\* List: sortKey := filepath.Base(doc.FilePath); if sortKey == "" { sortKey = name }
sortKey(reg, name) ==
    LET key == Base(reg[name].FilePath) IN IF key = "" THEN name ELSE key

\* the less function List hands to sort.Slice
EntryLess(reg, n, m) ==
    IF sortKey(reg, n) = sortKey(reg, m) THEN Rank(n) < Rank(m)
    ELSE Rank(sortKey(reg, n)) < Rank(sortKey(reg, m))

\* sort.Slice over the entries of names: the keys of a map are distinct, so
\* EntryLess is a total order and the sorted sequence is unique
RECURSIVE SortEntries(_, _)
SortEntries(reg, names) ==
    IF names = {} THEN <<>>
    ELSE LET first == CHOOSE n \in names :
                          \A m \in names \ {n} : EntryLess(reg, n, m)
         IN <<first>> \o SortEntries(reg, names \ {first})

List(reg) == SortEntries(reg, DOMAIN reg)

\* a GetAll that walks the names of List from the last to the first
GetAll_Reversed(reg) ==
    LET names == List(reg) IN [i \in DOMAIN names |-> reg[names[Len(names) + 1 - i]]]

GetAll(reg) ==
    LET names == List(reg) IN [i \in DOMAIN names |-> reg[names[i]]]

DocumentsToList(reg) ==
    LET names == List(reg) IN [i \in DOMAIN names |-> reg[names[i]]]

NotListed == [List |-> <<>>, GetAll |-> <<>>, DocumentsToList |-> <<>>]

(***************************************************************************)
(* The filesystem.  The two source directories of the loader hold files    *)
(* whose bytes are opaque tokens; Size, Frontmatter, Body and ConfigYaml   *)
(* say what the parsers make of each token.  A file written takes the      *)
(* current tick of the clock as its modification time, so two writes in    *)
(* the same tick leave the same modification time.                         *)
(***************************************************************************)
globalDir == "global"
projectDir == "project"
Dirs == {globalDir, projectDir}

FileNames == {"a.md", "b.md", "config.yaml"}
\* filepath.WalkDir visits the entries of a directory in lexical order, and
\* the entries of a subdirectory right after it; an entry below the
\* subdirectory sub is named by its path from the root
WalkOrder ==
    <<"B.MD", "a.md", "b.md", "config.yaml", "d.md", "notes.txt", "sub", "sub/a.md">>

MdContents == {"md1", "md2", "md3"}
ConfigContents == {"cfgNone", "cfgA", "cfgBad"}
\* bytes of a document file that ParseContent rejects
BadMdContents == {"mdBad", "mdEmpty"}

ContentsOf(f) == IF f = "config.yaml" THEN ConfigContents ELSE MdContents

\* the places where the model creates files
Layout == {<<globalDir, "a.md">>, <<projectDir, "a.md">>,
           <<projectDir, "config.yaml">>}

\* info.Size() of a file holding these bytes
Size(data) ==
    CASE data = "md1" -> 1
      [] data = "md2" -> 1
      [] data = "md3" -> 2
      [] data = "mdBad" -> 3
      [] data = "mdEmpty" -> 2
      [] data = "cfgNone" -> 1
      [] data = "cfgA" -> 2
      [] data = "cfgBad" -> 3

\* what extractFrontmatter and yaml.Unmarshal make of the bytes:
\* md1   ---\ndescription: D\n---\nv1
\* md2   ---\ndescription: D\nrequired: false\n---\nv2
\* md3   ---\ndescription: D3\n---\nv3
\* mdBad ---\nrequired: true\n---\nv4        (no description)
\* mdEmpty ---\ndescription: ""\n---\nv5     (an empty description)
Frontmatter(data) ==
    CASE data = "md1" -> [Name |-> "", Description |-> "D", Required |-> "unset"]
      [] data = "md2" -> [Name |-> "", Description |-> "D", Required |-> "false"]
      [] data = "md3" -> [Name |-> "", Description |-> "D3", Required |-> "unset"]
      [] data = "mdBad" -> [Name |-> "", Description |-> "", Required |-> "true"]
      [] data = "mdEmpty" -> [Name |-> "", Description |-> "", Required |-> "unset"]

Body(data) ==
    CASE data = "md1" -> "v1"
      [] data = "md2" -> "v2"
      [] data = "md3" -> "v3"
      [] data = "mdBad" -> "v4"
      [] data = "mdEmpty" -> "v5"

\* what yaml.Unmarshal into ProjectConfig makes of the bytes
ConfigYaml(data) ==
    CASE data = "cfgNone" -> [err |-> FALSE, Require |-> <<>>]
      [] data = "cfgA" -> [err |-> FALSE, Require |-> <<"a">>]
      [] data = "cfgBad" -> [err |-> TRUE, Require |-> <<>>]

\* a HasSuffix on the name as it is
IsMd_CaseSensitive(f) == f \in {"a.md", "b.md", "d.md", "sub/a.md"}

\* strings.HasSuffix(strings.ToLower(d.Name()), ".md")
IsMd(f) == f \in {"a.md", "b.md", "B.MD", "d.md", "sub/a.md"}

\* strings.TrimSuffix(filename, ".md"): the suffix is compared as it is
TrimSuffixMd(f) ==
    CASE f = "a.md" -> "a"
      [] f = "b.md" -> "b"
      [] f = "d.md" -> "d"
      [] OTHER -> f

\* filepath.Join(dir, name)
Join(dir, f) ==
    CASE dir = globalDir /\ f = "a.md" -> "global/a.md"
      [] dir = projectDir /\ f = "a.md" -> "project/a.md"
      [] dir = globalDir /\ f = "b.md" -> "global/b.md"
      [] dir = projectDir /\ f = "b.md" -> "project/b.md"
      [] dir = globalDir /\ f = "config.yaml" -> "global/config.yaml"
      [] dir = projectDir /\ f = "config.yaml" -> "project/config.yaml"
      [] dir = globalDir /\ f = "B.MD" -> "global/B.MD"
      [] dir = projectDir /\ f = "B.MD" -> "project/B.MD"
      [] dir = globalDir /\ f = "d.md" -> "global/d.md"
      [] dir = projectDir /\ f = "d.md" -> "project/d.md"
      [] dir = globalDir /\ f = "notes.txt" -> "global/notes.txt"
      [] dir = projectDir /\ f = "notes.txt" -> "project/notes.txt"
      [] dir = globalDir /\ f = "sub/a.md" -> "global/sub/a.md"
      [] dir = projectDir /\ f = "sub/a.md" -> "project/sub/a.md"

\* the modification times the filesystem hands out, in ticks of its
\* timestamp granularity
Timestamps == {1, 2}

NoFiles == [f \in {} |-> 0]

File(mtime, data) == [mtime |-> mtime, data |-> data]

\* a directory below the root is an entry without bytes; d.IsDir()
Directory(mtime) == [mtime |-> mtime, data |-> "dir"]

IsDir(entry) == entry.data = "dir"

(***************************************************************************)
(* parser.ParseContent on the bytes of one file                            *)
(***************************************************************************)
\* a ParseContent without the check of the required field
ParseContent_NoValidation(data, filename, source, filepath) ==
    LET meta == Frontmatter(data) IN
    [err |-> FALSE,
     doc |-> Document(
         IF meta.Name = "" THEN TrimSuffixMd(filename) ELSE meta.Name,
         meta.Description,
         IF meta.Required = "unset" THEN TRUE ELSE meta.Required = "true",
         Body(data), source, filepath)]

ParseContent(data, filename, source, filepath) ==
    LET meta == Frontmatter(data) IN
    IF meta.Description = "" THEN [err |-> TRUE, doc |-> <<>>]
    ELSE [err |-> FALSE,
          doc |-> Document(
              IF meta.Name = "" THEN TrimSuffixMd(filename) ELSE meta.Name,
              meta.Description,
              IF meta.Required = "unset" THEN TRUE ELSE meta.Required = "true",
              Body(data), source, filepath)]

\* parser.ParseFile
ParseFile(fs, dir, f, source) ==
    ParseContent(fs[dir][f].data, Base(Join(dir, f)), source, Join(dir, f))

(***************************************************************************)
(* parser.extractFrontmatter on the bytes of a file.  A byte is a string   *)
(* of one character, a []byte a sequence of them; positions count from 0   *)
(* as in Go.                                                               *)
(***************************************************************************)
LF == "\n"
CR == "\r"
Dashes == <<"-", "-", "-">>

\* s[i:j]
Slice(s, i, j) == SubSeq(s, i + 1, j)

\* bytes.HasPrefix, bytes.HasSuffix
HasPrefix(s, prefix) ==
    Len(s) >= Len(prefix) /\ Slice(s, 0, Len(prefix)) = prefix

HasSuffix(s, suffix) ==
    Len(s) >= Len(suffix) /\ Slice(s, Len(s) - Len(suffix), Len(s)) = suffix

\* bytes.Index: the position of the first instance of sep in s, or -1
Index(s, sep) ==
    LET at == {i \in 0..(Len(s) - Len(sep)) : Slice(s, i, i + Len(sep)) = sep}
    IN IF at = {} THEN -1 ELSE CHOOSE i \in at : \A j \in at : i <= j

\* unicode.IsSpace on the bytes of the model
IsSpace(c) == c \in {LF, CR, " "}

\* bytes.TrimSpace
RECURSIVE BytesTrimSpace(_)
BytesTrimSpace(s) ==
    IF s = <<>> THEN s
    ELSE IF IsSpace(s[1]) THEN BytesTrimSpace(Tail(s))
    ELSE IF IsSpace(s[Len(s)]) THEN BytesTrimSpace(Slice(s, 0, Len(s) - 1))
    ELSE s

\* the loop of extractFrontmatter that moves bodyStartIndex past the
\* closing delimiter: it goes on while the byte is '\n', '\r' or '-'
RECURSIVE SkipDelimiter(_, _)
SkipDelimiter(content, bodyStartIndex) ==
    IF bodyStartIndex < Len(content)
       /\ content[bodyStartIndex + 1] \in {LF, CR, "-"}
    THEN SkipDelimiter(content, bodyStartIndex + 1)
    ELSE bodyStartIndex

NoBytes == <<>>

extractFrontmatter(content) ==
    IF ~HasPrefix(content, Dashes \o <<LF>>)
       /\ ~HasPrefix(content, Dashes \o <<CR, LF>>)
    THEN [err |-> TRUE, frontmatter |-> NoBytes, body |-> NoBytes]
    ELSE
    LET start == IF HasPrefix(content, Dashes \o <<CR, LF>>) THEN 5 ELSE 4
        remaining == Slice(content, start, Len(content))
        lf == Index(remaining, <<LF>> \o Dashes \o <<LF>>)
        crlf == Index(remaining, <<CR, LF>> \o Dashes \o <<CR, LF>>)
        mixed == Index(remaining, <<LF>> \o Dashes \o <<CR, LF>>)
        endDelimIndex ==
            IF lf # -1 THEN lf
            ELSE IF crlf # -1 THEN crlf
            ELSE IF mixed # -1 THEN mixed
            ELSE IF HasSuffix(remaining, <<LF>> \o Dashes)
            THEN Len(remaining) - 4
            ELSE IF HasSuffix(remaining, <<CR, LF>> \o Dashes)
            THEN Len(remaining) - 5
            ELSE -1
        bodyStartIndex == SkipDelimiter(content, start + endDelimIndex)
    IN IF endDelimIndex = -1
       THEN [err |-> TRUE, frontmatter |-> NoBytes, body |-> NoBytes]
       ELSE [err |-> FALSE,
             frontmatter |-> Slice(remaining, 0, endDelimIndex),
             body |-> IF bodyStartIndex < Len(content)
                      THEN BytesTrimSpace(Slice(content, bodyStartIndex, Len(content)))
                      ELSE NoBytes]

(***************************************************************************)
(* One call of extractFrontmatter:                                         *)
(*   parse.at       "idle", "start" or "done"                              *)
(*   parse.content  the bytes of the file                                  *)
(*   parse.meta     the lines between the two delimiter lines, without the *)
(*                  end of the last one                                    *)
(*   parse.text     the bytes after the closing delimiter line             *)
(*   parse.err, parse.frontmatter, parse.body    what the call returned    *)
(***************************************************************************)
ParseIdle ==
    [at |-> "idle", content |-> NoBytes, meta |-> NoBytes, text |-> NoBytes,
     err |-> FALSE, frontmatter |-> NoBytes, body |-> NoBytes]

(***************************************************************************)
(* loader.loadDocs, LoadGlobalDocs, LoadProjectDocs                        *)
(***************************************************************************)
\* a walk that gives up at the first file that fails to parse
RECURSIVE WalkDocs_StopAtFailure(_, _, _, _)
WalkDocs_StopAtFailure(fs, dir, source, order) ==
    IF order = <<>> THEN <<>>
    ELSE LET f == Head(order)
             rest == WalkDocs_StopAtFailure(fs, dir, source, Tail(order))
         IN IF f \notin DOMAIN fs[dir] THEN rest
            ELSE IF IsDir(fs[dir][f]) \/ ~IsMd(f) THEN rest
            ELSE LET r == ParseFile(fs, dir, f, source)
                 IN IF r.err THEN <<>> ELSE <<r.doc>> \o rest

RECURSIVE WalkDocs(_, _, _, _)
WalkDocs(fs, dir, source, order) ==
    IF order = <<>> THEN <<>>
    ELSE LET f == Head(order)
             rest == WalkDocs(fs, dir, source, Tail(order))
         IN IF f \notin DOMAIN fs[dir] THEN rest
            ELSE IF IsDir(fs[dir][f]) \/ ~IsMd(f) THEN rest
            ELSE LET r == ParseFile(fs, dir, f, source)
                 IN IF r.err THEN rest ELSE <<r.doc>> \o rest

\* os.Stat failing with ErrNotExist gives no documents and no error, any
\* other os.Stat failure is an error; an error WalkDir hands to the callback
\* (the directory cannot be read) is put aside and the walk goes on
loadDocs(st, fs, dir, source) ==
    CASE st[dir] = "missing" -> [err |-> FALSE, docs |-> <<>>]
      [] st[dir] = "denied" -> [err |-> TRUE, docs |-> <<>>]
      [] st[dir] = "unreadable" -> [err |-> FALSE, docs |-> <<>>]
      [] OTHER -> [err |-> FALSE, docs |-> WalkDocs(fs, dir, source, WalkOrder)]

LoadGlobalDocs(st, fs, configDir) == loadDocs(st, fs, configDir, SourceGlobal)

\* a project loader that leaves the origin to be worked out later
LoadProjectDocs_GlobalOrigin(st, fs, dir) == loadDocs(st, fs, dir, SourceGlobal)

LoadProjectDocs(st, fs, dir) == loadDocs(st, fs, dir, SourceProjectScoped)

(***************************************************************************)
(* config.LoadProjectConfig                                                *)
(***************************************************************************)
\* os.Stat(dir/config.yaml) fails with ErrNotExist when the directory or the
\* file is not there, and with another error when the directory cannot be
\* searched
\* a configuration loader for which a file that is not there is an error
LoadProjectConfig_AbsentFails(st, fs, dir) ==
    IF st[dir] # "dir" \/ "config.yaml" \notin DOMAIN fs[dir]
    THEN [err |-> TRUE, config |-> ProjectConfig(<<>>)]
    ELSE LET y == ConfigYaml(fs[dir]["config.yaml"].data)
         IN [err |-> y.err, config |-> ProjectConfig(y.Require)]

LoadProjectConfig(st, fs, dir) ==
    CASE st[dir] = "missing" -> [err |-> FALSE, config |-> ProjectConfig(<<>>)]
      [] st[dir] = "denied" -> [err |-> TRUE, config |-> ProjectConfig(<<>>)]
      [] st[dir] = "unreadable" -> [err |-> TRUE, config |-> ProjectConfig(<<>>)]
      [] OTHER ->
           IF "config.yaml" \notin DOMAIN fs[dir]
           THEN [err |-> FALSE, config |-> ProjectConfig(<<>>)]
           ELSE LET y == ConfigYaml(fs[dir]["config.yaml"].data)
                IN [err |-> y.err, config |-> ProjectConfig(y.Require)]

(***************************************************************************)
(* app.LoadRegistry run on one state of the filesystem                     *)
(***************************************************************************)
LoadRegistry(st, fs) ==
    LET g == LoadGlobalDocs(st, fs, globalDir)
        p == LoadProjectDocs(st, fs, projectDir)
        c == LoadProjectConfig(st, fs, projectDir)
    IN IF g.err \/ p.err \/ c.err THEN [err |-> TRUE, reg |-> EmptyRegistry]
       ELSE [err |-> FALSE, reg |-> BuildRegistry(g.docs, p.docs, c.config)]

(***************************************************************************)
(* app.computeSignature.  The signature is the SHA-256 of the bytes        *)
(* written to the hasher; the model keeps the bytes themselves, as the     *)
(* sequence of the chunks written, so that two signatures are equal        *)
(* exactly when the same chunks were hashed.                               *)
(***************************************************************************)
NoSignature == [set |-> FALSE, bytes |-> <<>>]     \* the empty string
Hex(bytes) == [set |-> TRUE, bytes |-> bytes]

RECURSIVE WalkEntries(_, _, _)
WalkEntries(fs, dir, order) ==
    IF order = <<>> THEN <<>>
    ELSE LET f == Head(order)
             rest == WalkEntries(fs, dir, Tail(order))
         IN IF f \notin DOMAIN fs[dir] \/ IsDir(fs[dir][f]) THEN rest
            ELSE << <<f, fs[dir][f].mtime, Size(fs[dir][f].data)>> >> \o rest

\* what one iteration of the loop over dirs writes to the hasher
DirBytes(st, fs, dir) ==
    IF st[dir] = "missing" THEN << <<dir, ":missing;">> >>
    ELSE WalkEntries(fs, dir, WalkOrder)

\* os.Stat failing otherwise than with ErrNotExist, and an error WalkDir
\* hands to the callback, are returned
computeSignature(st, fs) ==
    IF \E d \in Dirs : st[d] \in {"denied", "unreadable"}
    THEN [err |-> TRUE, sig |-> NoSignature]
    ELSE [err |-> FALSE,
          sig |-> Hex(DirBytes(st, fs, globalDir) \o DirBytes(st, fs, projectDir))]

(***************************************************************************)
(* The callers of Load, and the heap.  registry.Registry is a Go map, a    *)
(* reference: c.cached and every registry returned hold the address of a   *)
(* map, and heap gives the content of each map.                            *)
(***************************************************************************)
Callers == {"c1", "c2"}
NoCaller == "none"

Nil == 0
Addrs == 1..(2 * Cardinality(Callers) + 1)

\* what a caller may put into a registry it was given
StrayDoc == Document("a", "stray", TRUE, "stray", SourceProjectScoped, "")

LocInit ==
    [callId |-> 0, currentSignature |-> NoSignature, globalDocs |-> <<>>,
     projectDocs |-> <<>>, reg |-> Nil, hit |-> FALSE, rebuilt |-> FALSE]

RetInit == [reg |-> Nil, err |-> FALSE]

(***************************************************************************)
(* History.                                                                *)
(*   changed     the filesystem changed since the running call took c.mu   *)
(*   fresh       a Load that began after the last filesystem change has    *)
(*               returned a registry; freshReg is what it returned         *)
(*   rebuilds    number of Loads that began after the last filesystem      *)
(*               change and built and stored a registry                    *)
(*   cachedBy, signatureBy   the call that wrote c.cached / c.signature    *)
(*   pre         c.cached, c.signature and the cached map when the running *)
(*               call took c.mu                                            *)
(*   snapshot    the registry LoadRegistry built for c.cached              *)
(*   own         per caller, the registry it was given as its own          *)
(*               insertions and deletions have changed it                  *)
(*   returned    a Load has returned a registry                            *)
(*   tracking    whether atReturn is kept (SpecReload)                     *)
(*   atReturn    the files when the last successful Load returned          *)
(*   statAtReturn    the directories at that time                          *)
(***************************************************************************)
PreInit == [cached |-> Nil, signature |-> NoSignature, value |-> EmptyRegistry]

HistInit ==
    [changed |-> FALSE, fresh |-> FALSE, freshReg |-> EmptyRegistry,
     rebuilds |-> 0, cachedBy |-> 0, signatureBy |-> 0, pre |-> PreInit,
     snapshot |-> EmptyRegistry, own |-> [c \in Callers |-> EmptyRegistry],
     returned |-> FALSE, tracking |-> FALSE,
     atReturn |-> [d \in Dirs |-> NoFiles],
     statAtReturn |-> [d \in Dirs |-> "dir"]]

\* the addresses in use, given c.cached, the results held and the locals
Live(cch, rt, lc) ==
    ({cch} \cup {rt[c].reg : c \in Callers} \cup {lc[c].reg : c \in Callers})
        \ {Nil}

\* the lowest address not in use
NewAddr(used) == CHOOSE a \in Addrs \ used : \A b \in Addrs \ used : a <= b

\* maps nothing refers to are collected
Collect(h, live) == [a \in Addrs |-> IF a \in live THEN h[a] ELSE EmptyRegistry]

\* Mutant: the registry is returned as it is, without a copy.
cloneRegistry_Alias(h, src, dst) == [heap |-> h, addr |-> src]

\* cloneRegistry: a new map at dst with the entries of the map at src
cloneRegistry(h, src, dst) ==
    IF src = Nil THEN [heap |-> h, addr |-> Nil]
    ELSE [heap |-> [h EXCEPT ![dst] = h[src]], addr |-> dst]

(***************************************************************************)
(* The howto command and the MCP server before they run.                   *)
(*   cli.at      "idle", "start" (run() not yet called) or "exited"        *)
(*   cli.args    os.Args[1:]                                               *)
(*   cli.home    whether HOME is set                                       *)
(*   cli.globalDocs, projectDocs, projectConfig, reg     what run() loaded *)
(*   cli.called  whether run() called LoadRegistry                         *)
(*   cli.loaded  whether LoadRegistry returned a registry                  *)
(*   cli.stdout  what was printed: "", "version", "help" or a body         *)
(*   cli.stderr  the error run() returned: "" or its kind                  *)
(*   cli.exit    the exit status                                           *)
(***************************************************************************)
CliIdle ==
    [at |-> "idle", args |-> <<>>, home |-> TRUE, globalDocs |-> <<>>,
     projectDocs |-> <<>>, projectConfig |-> ProjectConfig(<<>>),
     reg |-> EmptyRegistry, called |-> FALSE, loaded |-> FALSE,
     stdout |-> "", stderr |-> "", exit |-> 0]

(***************************************************************************)
(* The messages of the MCP server.  A message on the input stream is one   *)
(* JSON value.  text says what Decode makes of it:                         *)
(*   "object"    an object that decodes into rawMessage                    *)
(*   "mismatch"  well-formed JSON that does not fit rawMessage (a member   *)
(*               of the wrong type, as in {"jsonrpc":"2.0","id":1,         *)
(*               "method":5}): Decode returns an UnmarshalTypeError        *)
(*   "syntax"    not JSON: Decode returns a SyntaxError                    *)
(* id is the raw text of the id member, "" when there is none ("null" is   *)
(* an id: json.RawMessage keeps the four bytes).  params names the raw     *)
(* params member by what decoding it gives (ParamsTable).                  *)
(***************************************************************************)
jsonRPCVersion == "2.0"
methodInitialize == "initialize"
methodInitialized == "initialized"
methodPing == "ping"
methodShutdown == "shutdown"
methodExit == "exit"
methodToolsList == "tools/list"
methodToolsCall == "tools/call"

codeParseError == -32700
codeInvalidRequest == -32600
codeMethodNotFound == -32601
codeInvalidParams == -32602
codeInternalError == -32603

ToolListPlaybooks == "list_playbooks"
ToolGetPlaybook == "get_playbook"

rawMessage(text, jsonrpc, id, method, params) ==
    [text |-> text, JSONRPC |-> jsonrpc, ID |-> id, Method |-> method,
     Params |-> params]

HasID(r) == r.ID # ""

NoMessage == rawMessage("none", "", "", "", "absent")

Request(id, method, params) == rawMessage("object", jsonRPCVersion, id, method, params)

Notification(method) == rawMessage("object", jsonRPCVersion, "", method, "absent")

\* an any of the arguments map
JsonString(v) == [type |-> "string", v |-> v]
JsonNumber(v) == [type |-> "number", v |-> v]

NoArguments == [k \in {} |-> JsonString("")]

\* json.Unmarshal(msg.Params, &toolsCallParams{}): no params member and a
\* params member that is not an object are errors
ParamsTable(p) ==
    LET ok(name, arguments) == [err |-> FALSE, Name |-> name, Arguments |-> arguments]
    IN CASE p = "list" -> ok(ToolListPlaybooks, NoArguments)
         [] p = "listArgs" -> ok(ToolListPlaybooks, "verbose" :> JsonString("yes"))
         [] p = "getA" -> ok(ToolGetPlaybook, "name" :> JsonString("a"))
         [] p = "getB" -> ok(ToolGetPlaybook, "name" :> JsonString("b"))
         [] p = "getZZ" -> ok(ToolGetPlaybook, "name" :> JsonString("zz"))
         [] p = "getBlank" -> ok(ToolGetPlaybook, "name" :> JsonString(" "))
         [] p = "getNoName" -> ok(ToolGetPlaybook, NoArguments)
         [] p = "getNumber" -> ok(ToolGetPlaybook, "name" :> JsonNumber("5"))
         [] p = "other" -> ok("run_playbook", NoArguments)
         [] p = "empty" -> ok("", NoArguments)
         [] OTHER -> [err |-> TRUE, Name |-> "", Arguments |-> NoArguments]

\* whether the params member is there, and whether it is an object
ParamsGiven(p) == p # "absent"
ParamsObject(p) == p \notin {"absent", "array"}

TrimSpace(str) == IF str = " " THEN "" ELSE str

\* the messages a client sends
ClientMessages ==
    {Request("1", methodInitialize, "empty"),
     Notification(methodInitialized),
     Request("1", methodPing, "absent"),
     Request("null", methodPing, "absent"),
     Notification(methodPing),
     Request("2", methodShutdown, "absent"),
     Notification(methodExit),
     Request("1", methodToolsList, "absent"),
     Request("1", methodToolsCall, "list"),
     Request("2", methodToolsCall, "getA"),
     Request("1", methodToolsCall, "getZZ"),
     Request("2", methodToolsCall, "getBlank"),
     Request("1", methodToolsCall, "getNoName"),
     Request("1", methodToolsCall, "other"),
     Request("2", methodToolsCall, "array"),
     Request("1", "resources/list", "absent"),
     Request("2", "", "absent"),
     rawMessage("object", "1.0", "1", methodPing, "absent"),
     rawMessage("object", "1.0", "", methodPing, "absent"),
     rawMessage("mismatch", jsonRPCVersion, "1", "", "absent"),
     rawMessage("syntax", "", "", "", "absent")}

\* the response sendResult and sendError write; names is the listing of list_playbooks
sendResult(id, text, names) ==
    [ID |-> id, error |-> FALSE, Code |-> 0, Text |-> text, names |-> names]

sendError(id, code) ==
    [ID |-> id, error |-> TRUE, Code |-> code, Text |-> "", names |-> {}]

(***************************************************************************)
(*   srv.at      "idle", "read" (at the top of the loop of Serve), "load"  *)
(*               (inside s.loader.Load()), "stopped" (Serve returned nil)  *)
(*               or "failed" (Serve returned an error)                     *)
(*   srv.read    the messages read so far, in order                        *)
(*   srv.out     the responses written so far, in order                    *)
(*   srv.cur     the tools/call request being executed                     *)
(*   srv.want    the number of the Load call being waited for              *)
(*   srv.shuttingDown    s.shuttingDown                                    *)
(***************************************************************************)
SrvIdle ==
    [at |-> "idle", read |-> <<>>, out |-> <<>>, cur |-> NoMessage,
     want |-> 0, shuttingDown |-> FALSE]

(***************************************************************************)
(* Initial states                                                          *)
(***************************************************************************)
BuildIdle ==
    /\ globalDocs = <<>>
    /\ projectDocs = <<>>
    /\ projectConfig = ProjectConfig(<<>>)
    /\ built = EmptyRegistry
    /\ phase = "idle"
    /\ listed = NotListed

(***************************************************************************)
(* SpecBuild: BuildRegistry applied to every input within the bounds.  The *)
(* documents are given the origin of the loader that produces them         *)
(* (LoadGlobalDocs, LoadProjectDocs).                                      *)
(***************************************************************************)
SeqsUpTo(S, n) == UNION {[1..k -> S] : k \in 0..n}

DocPath(source, name) ==
    CASE source = SourceGlobal /\ name = "a" -> "global/a.md"
      [] source = SourceGlobal /\ name = "b" -> "global/b.md"
      [] source = SourceProjectScoped /\ name = "a" -> "project/a.md"
      [] source = SourceProjectScoped /\ name = "b" -> "project/b.md"

GlobalInputs ==
    {Document(n, "G", r, c, SourceGlobal, DocPath(SourceGlobal, n)) :
        n \in Names, r \in BOOLEAN, c \in {"g1", "g2"}}

ProjectInputs ==
    {Document(n, "P", r, "p1", SourceProjectScoped, DocPath(SourceProjectScoped, n)) :
        n \in Names, r \in BOOLEAN}

BuildInputs ==
    /\ globalDocs \in SeqsUpTo(GlobalInputs, MaxDocs)
    /\ projectDocs \in SeqsUpTo(ProjectInputs, MaxDocs)
    /\ projectConfig \in {ProjectConfig(r) : r \in SeqsUpTo(Names, MaxRequire)}
    /\ built = EmptyRegistry
    /\ phase = "input"
    /\ listed = NotListed

\* registry := BuildRegistry(globalDocs, projectDocs, projectConfig)
Build ==
    /\ phase = "input"
    /\ built' = BuildRegistry(globalDocs, projectDocs, projectConfig)
    /\ phase' = "built"
    /\ UNCHANGED <<globalDocs, projectDocs, projectConfig, listed, fsvars, lvars, tvars>>

\* names := reg.List(); docs := reg.GetAll(); app.DocumentsToList(reg)
ListAll ==
    /\ phase = "built"
    /\ listed' = [List |-> List(built), GetAll |-> GetAll(built),
                  DocumentsToList |-> DocumentsToList(built)]
    /\ phase' = "listed"
    /\ UNCHANGED <<globalDocs, projectDocs, projectConfig, built, fsvars, lvars, tvars>>

\* the filesystem at the start
FsAt(st, fs) ==
    /\ now = 1
    /\ changes = 0
    /\ dirStat = st
    /\ files = fs

\* neither the command nor the server runs
TopIdle == cli = CliIdle /\ srv = SrvIdle /\ parse = ParseIdle

\* a global library of one document and an empty project library
OneDocument ==
    [d \in Dirs |->
        IF d = globalDir THEN [f \in {"a.md"} |-> File(1, "md1")] ELSE NoFiles]

\* NewCachedRegistryLoader: nothing cached, no call made
LoaderNew(h) ==
    /\ mu = NoCaller
    /\ cached = Nil
    /\ signature = NoSignature
    /\ heap = [a \in Addrs |-> EmptyRegistry]
    /\ pc = [c \in Callers |-> "idle"]
    /\ loc = [c \in Callers |-> LocInit]
    /\ ret = [c \in Callers |-> RetInit]
    /\ calls = 0
    /\ hist = h

\* NewCachedRegistryLoader over the filesystem (st, fs)
LoaderAt(h, st, fs) == FsAt(st, fs) /\ TopIdle /\ LoaderNew(h)

\* NewCachedRegistryLoader over a global library of one document and an
\* empty project library
LoaderStart(h) == LoaderAt(h, [d \in Dirs |-> "dir"], OneDocument)

LoaderInit == LoaderStart(HistInit)

Init == BuildIdle /\ LoaderInit

InitBuild == BuildInputs /\ LoaderInit

SpecBuild == InitBuild /\ [][Build]_vars

(***************************************************************************)
(* The filesystem changes under the loader.                                *)
(***************************************************************************)
FsChanged ==
    /\ changes < MaxChanges
    /\ changes' = changes + 1
    /\ hist' = [hist EXCEPT !.changed = TRUE, !.fresh = FALSE,
                            !.freshReg = EmptyRegistry, !.rebuilds = 0]

FsFrame == UNCHANGED <<mu, cached, signature, heap, pc, loc, ret, calls>>

\* the tick in which a change happens: the current one or the next
Ticks == {t \in {now, now + 1} : t \in Timestamps}

CreateFile(d, f, data, t) ==
    /\ dirStat[d] = "dir"
    /\ <<d, f>> \in Layout
    /\ f \notin DOMAIN files[d]
    /\ files' = [files EXCEPT ![d] =
                    [g \in (DOMAIN files[d]) \cup {f} |->
                        IF g = f THEN File(t, data) ELSE files[d][g]]]
    /\ now' = t
    /\ FsChanged /\ FsFrame
    /\ UNCHANGED <<dirStat, bvars, tvars>>

\* os.WriteFile over an existing file, with new bytes, changing the size or
\* the modification time
WriteFile(d, f, data, t) ==
    /\ dirStat[d] = "dir"
    /\ f \in DOMAIN files[d]
    /\ data # files[d][f].data
    /\ <<t, Size(data)>> # <<files[d][f].mtime, Size(files[d][f].data)>>
    /\ files' = [files EXCEPT ![d][f] = File(t, data)]
    /\ now' = t
    /\ FsChanged /\ FsFrame
    /\ UNCHANGED <<dirStat, bvars, tvars>>

DeleteFile(d, f) ==
    /\ dirStat[d] = "dir"
    /\ f \in DOMAIN files[d]
    /\ files' = [files EXCEPT ![d] = [g \in (DOMAIN files[d]) \ {f} |-> files[d][g]]]
    /\ FsChanged /\ FsFrame
    /\ UNCHANGED <<now, dirStat, bvars, tvars>>

\* os.Rename from one source directory to the other: the modification time
\* and the size go with the file
MoveFile(d, f, e) ==
    /\ d # e
    /\ dirStat[d] = "dir" /\ dirStat[e] = "dir"
    /\ <<e, f>> \in Layout
    /\ f \in DOMAIN files[d]
    /\ f \notin DOMAIN files[e]
    /\ files' = [files EXCEPT
                    ![d] = [g \in (DOMAIN files[d]) \ {f} |-> files[d][g]],
                    ![e] = [g \in (DOMAIN files[e]) \cup {f} |->
                               IF g = f THEN files[d][f] ELSE files[e][g]]]
    /\ FsChanged /\ FsFrame
    /\ UNCHANGED <<now, dirStat, bvars, tvars>>

\* os.RemoveAll of a source directory
RemoveDir(d) ==
    /\ dirStat[d] = "dir"
    /\ dirStat' = [dirStat EXCEPT ![d] = "missing"]
    /\ files' = [files EXCEPT ![d] = NoFiles]
    /\ FsChanged /\ FsFrame
    /\ UNCHANGED <<now, bvars, tvars>>

MkDir(d) ==
    /\ dirStat[d] = "missing"
    /\ dirStat' = [dirStat EXCEPT ![d] = "dir"]
    /\ FsChanged /\ FsFrame
    /\ UNCHANGED <<now, files, bvars, tvars>>

\* os.Rename of a prepared directory onto the path of a source directory
\* that is not there: the directory appears with a document in it, whose
\* modification time is an earlier one
InstallDir(d, data) ==
    /\ dirStat[d] = "missing"
    /\ dirStat' = [dirStat EXCEPT ![d] = "dir"]
    /\ files' = [files EXCEPT ![d] = [f \in {"a.md"} |-> File(1, data)]]
    /\ FsChanged /\ FsFrame
    /\ UNCHANGED <<now, bvars, tvars>>

\* the directory becomes unreadable (stat and walk fail), or readable again
Chmod(d) ==
    /\ dirStat[d] # "missing"
    /\ dirStat' = [dirStat EXCEPT ![d] = IF dirStat[d] = "dir" THEN "denied" ELSE "dir"]
    /\ FsChanged /\ FsFrame
    /\ UNCHANGED <<now, files, bvars, tvars>>

(***************************************************************************)
(* CachedRegistryLoader.Load, one action per step of the call.  The steps  *)
(* of one call interleave with the filesystem changes and with what the    *)
(* other callers do.                                                       *)
(***************************************************************************)
\* return nil, err: the caller is handed no registry
ReturnError(c) ==
    /\ ret' = [ret EXCEPT ![c] = [reg |-> Nil, err |-> TRUE]]
    /\ heap' = Collect(heap, Live(cached, ret', loc'))
    /\ pc' = [pc EXCEPT ![c] = "unlock"]

\* return cloneRegistry(c.cached), nil
ReturnClone(c, h, cch) ==
    LET r == cloneRegistry(h, cch, NewAddr(Live(cch, [ret EXCEPT ![c] = RetInit], loc)))
    IN /\ ret' = [ret EXCEPT ![c] = [reg |-> r.addr, err |-> FALSE]]
       /\ heap' = Collect(r.heap, Live(cch, ret', loc'))
       /\ hist' = [hist EXCEPT !.own[c] =
                      IF r.addr = Nil THEN EmptyRegistry ELSE r.heap[r.addr]]
       /\ pc' = [pc EXCEPT ![c] = "unlock"]

\* Mutant: Load does not take c.mu.
Lock_NoMutex(c) ==
    /\ pc[c] = "idle"
    /\ calls < MaxCalls
    /\ mu' = c
    /\ calls' = calls + 1
    /\ pc' = [pc EXCEPT ![c] = "signature"]
    /\ loc' = [loc EXCEPT ![c] = [LocInit EXCEPT !.callId = calls + 1]]
    /\ hist' = [hist EXCEPT
                   !.changed = FALSE,
                   !.pre = [cached |-> cached, signature |-> signature,
                            value |-> IF cached = Nil THEN EmptyRegistry
                                      ELSE heap[cached]]]
    /\ UNCHANGED <<cached, signature, heap, ret, fsvars, bvars, tvars>>

\* c.mu.Lock()
Lock(c) ==
    /\ pc[c] = "idle"
    /\ mu = NoCaller
    /\ calls < MaxCalls
    /\ mu' = c
    /\ calls' = calls + 1
    /\ pc' = [pc EXCEPT ![c] = "signature"]
    /\ loc' = [loc EXCEPT ![c] = [LocInit EXCEPT !.callId = calls + 1]]
    /\ hist' = [hist EXCEPT
                   !.changed = FALSE,
                   !.pre = [cached |-> cached, signature |-> signature,
                            value |-> IF cached = Nil THEN EmptyRegistry
                                      ELSE heap[cached]]]
    /\ UNCHANGED <<cached, signature, heap, ret, fsvars, bvars, tvars>>

\* Mutant: the new signature is stored as soon as it is computed.
ComputeSignature_StoreEarly(c) ==
    /\ pc[c] = "signature"
    /\ LET s == computeSignature(dirStat, files) IN
       IF s.err
       THEN /\ loc' = loc
            /\ ReturnError(c)
            /\ UNCHANGED <<signature, hist>>
       ELSE /\ loc' = [loc EXCEPT ![c].currentSignature = s.sig]
            /\ pc' = [pc EXCEPT ![c] = "compare"]
            /\ signature' = s.sig
            /\ UNCHANGED <<ret, heap, hist>>
    /\ UNCHANGED <<mu, cached, calls, fsvars, bvars, tvars>>

\* currentSignature, err := computeSignature(c.globalDir, c.projectDir)
ComputeSignature(c) ==
    /\ pc[c] = "signature"
    /\ LET s == computeSignature(dirStat, files) IN
       IF s.err
       THEN /\ loc' = loc
            /\ ReturnError(c)
            /\ UNCHANGED hist
       ELSE /\ loc' = [loc EXCEPT ![c].currentSignature = s.sig]
            /\ pc' = [pc EXCEPT ![c] = "compare"]
            /\ UNCHANGED <<ret, heap, hist>>
    /\ UNCHANGED <<mu, cached, signature, calls, fsvars, bvars, tvars>>

\* Mutant: the signatures are not compared, every call rebuilds.
Compare_AlwaysRebuild(c) ==
    /\ pc[c] = "compare"
    /\ pc' = [pc EXCEPT ![c] = "loadGlobal"]
    /\ UNCHANGED <<loc, ret, heap, hist>>
    /\ UNCHANGED <<mu, cached, signature, calls, fsvars, bvars, tvars>>

\* if c.cached != nil && c.signature == currentSignature { return clone }
Compare(c) ==
    /\ pc[c] = "compare"
    /\ IF cached # Nil /\ signature = loc[c].currentSignature
       THEN /\ loc' = [loc EXCEPT ![c].hit = TRUE]
            /\ ReturnClone(c, heap, cached)
       ELSE /\ pc' = [pc EXCEPT ![c] = "loadGlobal"]
            /\ UNCHANGED <<loc, ret, heap, hist>>
    /\ UNCHANGED <<mu, cached, signature, calls, fsvars, bvars, tvars>>

\* LoadRegistry: globalDocs, err := loader.LoadGlobalDocs(globalDir)
LoadGlobal(c) ==
    /\ pc[c] = "loadGlobal"
    /\ LET g == LoadGlobalDocs(dirStat, files, globalDir) IN
       IF g.err
       THEN /\ loc' = [loc EXCEPT ![c].rebuilt = TRUE]
            /\ ReturnError(c)
       ELSE /\ loc' = [loc EXCEPT ![c].rebuilt = TRUE, ![c].globalDocs = g.docs]
            /\ pc' = [pc EXCEPT ![c] = "loadProject"]
            /\ UNCHANGED <<ret, heap>>
    /\ UNCHANGED <<mu, cached, signature, calls, hist, fsvars, bvars, tvars>>

\* LoadRegistry: projectDocs, err := loader.LoadProjectDocs(projectDir)
LoadProject(c) ==
    /\ pc[c] = "loadProject"
    /\ LET p == LoadProjectDocs(dirStat, files, projectDir) IN
       IF p.err
       THEN /\ loc' = loc
            /\ ReturnError(c)
       ELSE /\ loc' = [loc EXCEPT ![c].projectDocs = p.docs]
            /\ pc' = [pc EXCEPT ![c] = "loadConfig"]
            /\ UNCHANGED <<ret, heap>>
    /\ UNCHANGED <<mu, cached, signature, calls, hist, fsvars, bvars, tvars>>

\* LoadRegistry: config.LoadProjectConfig(projectDir), then
\* reg := registry.BuildRegistry(globalDocs, projectDocs, projectConfig)
LoadConfigAndBuild(c) ==
    /\ pc[c] = "loadConfig"
    /\ LET y == LoadProjectConfig(dirStat, files, projectDir) IN
       IF y.err
       THEN /\ loc' = loc
            /\ ReturnError(c)
       ELSE LET a == NewAddr(Live(cached, ret, loc)) IN
            /\ loc' = [loc EXCEPT ![c].reg = a]
            /\ heap' = [heap EXCEPT ![a] =
                           BuildRegistry(loc[c].globalDocs, loc[c].projectDocs,
                                         y.config)]
            /\ pc' = [pc EXCEPT ![c] = "storeCached"]
            /\ UNCHANGED ret
    /\ UNCHANGED <<mu, cached, signature, calls, hist, fsvars, bvars, tvars>>

\* Mutant: Load returns after c.cached = reg, leaving c.signature as it was.
StoreCached_Only(c) ==
    /\ pc[c] = "storeCached"
    /\ cached' = loc[c].reg
    /\ hist' = [hist EXCEPT !.cachedBy = loc[c].callId,
                            !.snapshot = heap[loc[c].reg]]
    /\ heap' = Collect(heap, Live(cached', ret, loc))
    /\ pc' = [pc EXCEPT ![c] = "clone"]
    /\ UNCHANGED <<mu, signature, loc, ret, calls, fsvars, bvars, tvars>>

\* c.cached = reg
StoreCached(c) ==
    /\ pc[c] = "storeCached"
    /\ cached' = loc[c].reg
    /\ hist' = [hist EXCEPT !.cachedBy = loc[c].callId,
                            !.snapshot = heap[loc[c].reg]]
    /\ heap' = Collect(heap, Live(cached', ret, loc))
    /\ pc' = [pc EXCEPT ![c] = "storeSignature"]
    /\ UNCHANGED <<mu, signature, loc, ret, calls, fsvars, bvars, tvars>>

\* Mutant: the signature computed is dropped, c.signature stays empty.
StoreSignature_Dropped(c) ==
    /\ pc[c] = "storeSignature"
    /\ signature' = NoSignature
    /\ hist' = [hist EXCEPT !.signatureBy = loc[c].callId,
                            !.rebuilds = IF hist.changed THEN @ ELSE @ + 1]
    /\ pc' = [pc EXCEPT ![c] = "clone"]
    /\ UNCHANGED <<mu, cached, heap, loc, ret, calls, fsvars, bvars, tvars>>

\* c.signature = currentSignature
StoreSignature(c) ==
    /\ pc[c] = "storeSignature"
    /\ signature' = loc[c].currentSignature
    /\ hist' = [hist EXCEPT !.signatureBy = loc[c].callId,
                            !.rebuilds = IF hist.changed THEN @ ELSE @ + 1]
    /\ pc' = [pc EXCEPT ![c] = "clone"]
    /\ UNCHANGED <<mu, cached, heap, loc, ret, calls, fsvars, bvars, tvars>>

\* return cloneRegistry(c.cached), nil     (after a rebuild)
CloneReturn(c) ==
    /\ pc[c] = "clone"
    /\ loc' = loc
    /\ ReturnClone(c, heap, cached)
    /\ UNCHANGED <<mu, cached, signature, calls, fsvars, bvars, tvars>>

\* the deferred c.mu.Unlock(): the call is over, the caller has its result
Unlock(c) ==
    /\ pc[c] = "unlock"
    /\ mu' = NoCaller
    /\ pc' = [pc EXCEPT ![c] = "idle"]
    /\ loc' = [loc EXCEPT ![c] = LocInit]
    /\ heap' = Collect(heap, Live(cached, ret, loc'))
    /\ hist' = IF ret[c].err THEN [hist EXCEPT !.pre = PreInit]
               ELSE [hist EXCEPT
                        !.pre = PreInit,
                        !.returned = TRUE,
                        !.atReturn = IF hist.tracking THEN files ELSE @,
                        !.statAtReturn = IF hist.tracking THEN dirStat ELSE @,
                        !.fresh = @ \/ ~hist.changed,
                        !.freshReg = IF hist.fresh \/ hist.changed THEN @
                                     ELSE heap[ret[c].reg]]
    /\ UNCHANGED <<cached, signature, ret, calls, fsvars, bvars, tvars>>

(***************************************************************************)
(* A caller changes the registry it was given.                             *)
(***************************************************************************)
\* reg["a"] = doc: an insertion, or an overwrite when the key is there
InsertEntry(c) ==
    /\ pc[c] = "idle"
    /\ ret[c].reg # Nil
    /\ heap[ret[c].reg] # Put(heap[ret[c].reg], "a", StrayDoc)
    /\ heap' = [heap EXCEPT ![ret[c].reg] = Put(@, "a", StrayDoc)]
    /\ hist' = [hist EXCEPT !.own[c] = Put(@, "a", StrayDoc)]
    /\ UNCHANGED <<mu, cached, signature, pc, loc, ret, calls, fsvars, bvars, tvars>>

\* delete(reg, "a")
DeleteEntry(c) ==
    /\ pc[c] = "idle"
    /\ ret[c].reg # Nil
    /\ "a" \in DOMAIN heap[ret[c].reg]
    /\ heap' = [heap EXCEPT ![ret[c].reg] = Remove(@, "a")]
    /\ hist' = [hist EXCEPT !.own[c] = Remove(@, "a")]
    /\ UNCHANGED <<mu, cached, signature, pc, loc, ret, calls, fsvars, bvars, tvars>>

FsNext ==
    \/ \E d \in Dirs, f \in FileNames, t \in Ticks :
          \E data \in ContentsOf(f) : CreateFile(d, f, data, t)
    \/ \E d \in Dirs, f \in FileNames, t \in Ticks :
          \E data \in ContentsOf(f) : WriteFile(d, f, data, t)
    \/ \E d \in Dirs, f \in FileNames : DeleteFile(d, f)
    \/ \E d \in Dirs, e \in Dirs, f \in FileNames : MoveFile(d, f, e)
    \/ \E d \in Dirs : RemoveDir(d)
    \/ \E d \in Dirs : MkDir(d)
    \/ \E d \in Dirs : Chmod(d)

LoadStep(c) ==
    \/ Lock(c)
    \/ ComputeSignature(c)
    \/ Compare(c)
    \/ LoadGlobal(c)
    \/ LoadProject(c)
    \/ LoadConfigAndBuild(c)
    \/ StoreCached(c)
    \/ StoreSignature(c)
    \/ CloneReturn(c)
    \/ Unlock(c)

\* Spec: one caller calls Load again and again while the filesystem changes.
\* c.mu serializes the calls, so the calls of several callers give the same
\* sequences of calls.
Next == FsNext \/ LoadStep("c1")

Spec == Init /\ [][Next]_vars

\* SpecReload: Spec, with the files at the last successful return recorded.
InitReload == BuildIdle /\ LoaderStart([HistInit EXCEPT !.tracking = TRUE])

SpecReload == InitReload /\ [][Next]_vars

\* SpecRoots: Load over other libraries at the start: both source roots
\* point at paths that are not there, or the global library holds, next to
\* its document, a configuration file that cannot be decoded.
NoRoots == [d \in Dirs |-> "missing"]

NoLibraries == [d \in Dirs |-> NoFiles]

StrayConfig ==
    [d \in Dirs |->
        IF d = globalDir
        THEN [f \in {"a.md", "config.yaml"} |->
                 IF f = "a.md" THEN File(1, "md1") ELSE File(1, "cfgBad")]
        ELSE NoFiles]

InitRoots ==
    /\ BuildIdle
    /\ \/ LoaderAt(HistInit, NoRoots, NoLibraries)
       \/ LoaderAt(HistInit, [d \in Dirs |-> "dir"], StrayConfig)

NextRoots ==
    \/ Next
    \/ \E d \in Dirs, data \in MdContents : InstallDir(d, data)

SpecRoots == InitRoots /\ [][NextRoots]_vars

\* SpecCallers: the callers call Load concurrently and change the registries
\* they are given, while the files of the global library change.
FsGlobal ==
    \/ \E t \in Ticks, data \in MdContents : CreateFile(globalDir, "a.md", data, t)
    \/ \E t \in Ticks, data \in MdContents : WriteFile(globalDir, "a.md", data, t)
    \/ DeleteFile(globalDir, "a.md")
    \/ Chmod(globalDir)

NextCallers ==
    \/ \E c \in Callers : LoadStep(c) \/ InsertEntry(c) \/ DeleteEntry(c)
    \/ FsGlobal

SpecCallers == Init /\ [][NextCallers]_vars

(***************************************************************************)
(* SpecList: List, GetAll and DocumentsToList applied to every registry    *)
(* over three names whose documents come from a file of either library or  *)
(* have no known path.  SpecBuildList: the same applied to the registries  *)
(* BuildRegistry builds.                                                   *)
(***************************************************************************)
ListNames == {"a", "b", "c"}

ListPaths == {"", "global/a.md", "project/a.md", "global/b.md"}

RegistryInputs ==
    UNION {[keys ->
               {Document(n, "D", TRUE, "v",
                         IF path = "project/a.md" THEN SourceProjectScoped
                         ELSE SourceGlobal, path) :
                   n \in ListNames, path \in ListPaths}] :
           keys \in SUBSET ListNames}

InitList ==
    /\ LoaderInit
    /\ globalDocs = <<>>
    /\ projectDocs = <<>>
    /\ projectConfig = ProjectConfig(<<>>)
    /\ built \in {reg \in RegistryInputs : \A n \in DOMAIN reg : reg[n].Name = n}
    /\ phase = "built"
    /\ listed = NotListed

SpecList == InitList /\ [][ListAll]_vars

SpecBuildList == InitBuild /\ [][Build \/ ListAll]_vars

(***************************************************************************)
(* SpecServe: the MCP server reads messages until EOF or exit, and runs    *)
(* s.loader.Load() for the tool calls, while the global library changes.   *)
(* The writer behind s.encoder accepts every response.                     *)
(***************************************************************************)
MaxMsgs == 2

\* the server with message m read and the response r written, back at the
\* top of the loop
Answered(m, r) == [srv EXCEPT !.read = Append(@, m), !.out = Append(@, r)]

\* handleInitialize, handleToolsList: params that are there must decode
handleInitialize(m) ==
    IF ParamsGiven(m.Params) /\ ~ParamsObject(m.Params)
    THEN sendError(m.ID, codeInvalidParams)
    ELSE sendResult(m.ID, "initialize", {})

handleToolsList(m) ==
    IF ParamsGiven(m.Params) /\ ~ParamsObject(m.Params)
    THEN sendError(m.ID, codeInvalidParams)
    ELSE sendResult(m.ID, "tools", {ToolListPlaybooks, ToolGetPlaybook})

\* a handleToolsCall that reports an unknown tool as a failure of the server
handleToolsCall_UnknownToolInternal(m) ==
    LET params == ParamsTable(m.Params)
        arguments == params.Arguments
        stop(code) == [load |-> FALSE, resp |-> sendError(m.ID, code)]
        go == [load |-> TRUE, resp |-> sendError(m.ID, codeInternalError)]
    IN IF params.err THEN stop(codeInvalidParams)
       ELSE IF params.Name = ToolListPlaybooks
       THEN IF DOMAIN arguments # {} THEN stop(codeInvalidParams) ELSE go
       ELSE IF params.Name = ToolGetPlaybook
       THEN IF "name" \notin DOMAIN arguments THEN stop(codeInvalidParams)
            ELSE IF arguments["name"].type # "string" THEN stop(codeInvalidParams)
            ELSE IF TrimSpace(arguments["name"].v) = "" THEN stop(codeInvalidParams)
            ELSE go
       ELSE stop(codeInternalError)

\* handleToolsCall up to s.loader.Load(): load says whether the call goes on
\* to the loader, resp is the response when it does not
handleToolsCall(m) ==
    LET params == ParamsTable(m.Params)
        arguments == params.Arguments
        stop(code) == [load |-> FALSE, resp |-> sendError(m.ID, code)]
        go == [load |-> TRUE, resp |-> sendError(m.ID, codeInternalError)]
    IN IF params.err THEN stop(codeInvalidParams)
       ELSE IF params.Name = ToolListPlaybooks
       THEN IF DOMAIN arguments # {} THEN stop(codeInvalidParams) ELSE go
       ELSE IF params.Name = ToolGetPlaybook
       THEN IF "name" \notin DOMAIN arguments THEN stop(codeInvalidParams)
            ELSE IF arguments["name"].type # "string" THEN stop(codeInvalidParams)
            ELSE IF TrimSpace(arguments["name"].v) = "" THEN stop(codeInvalidParams)
            ELSE go
       ELSE stop(codeInvalidParams)

\* Serve: the input is at EOF
ReadEOF ==
    /\ srv.at = "read"
    /\ srv' = [srv EXCEPT !.at = "stopped"]
    /\ UNCHANGED <<bvars, fsvars, lvars, cli, parse>>

\* Serve: s.decoder.Decode(&req) fails on m
DecodeError(m) ==
    /\ srv.at = "read"
    /\ Len(srv.read) < MaxMsgs
    /\ m.text # "object"
    /\ srv' = [srv EXCEPT !.at = "failed", !.read = Append(@, m)]
    /\ UNCHANGED <<bvars, fsvars, lvars, cli, parse>>

\* Serve: a message with another version or without method
InvalidRequest(m) ==
    /\ srv.at = "read"
    /\ Len(srv.read) < MaxMsgs
    /\ m.text = "object"
    /\ m.JSONRPC # jsonRPCVersion \/ m.Method = ""
    /\ srv' = IF HasID(m) THEN Answered(m, sendError(m.ID, codeInvalidRequest))
              ELSE [srv EXCEPT !.read = Append(@, m)]
    /\ UNCHANGED <<bvars, fsvars, lvars, cli, parse>>

\* a handleNotification for which exit stops the server only after shutdown
HandleNotification_ExitAfterShutdown(m) ==
    /\ srv.at = "read"
    /\ Len(srv.read) < MaxMsgs
    /\ m.text = "object" /\ m.JSONRPC = jsonRPCVersion /\ m.Method # ""
    /\ ~HasID(m)
    /\ srv' = [srv EXCEPT !.read = Append(@, m),
                          !.at = IF m.Method = methodExit /\ srv.shuttingDown
                                 THEN "stopped" ELSE @]
    /\ UNCHANGED <<bvars, fsvars, lvars, cli, parse>>

\* Serve: a message without id goes to handleNotification
HandleNotification(m) ==
    /\ srv.at = "read"
    /\ Len(srv.read) < MaxMsgs
    /\ m.text = "object" /\ m.JSONRPC = jsonRPCVersion /\ m.Method # ""
    /\ ~HasID(m)
    /\ srv' = [srv EXCEPT !.read = Append(@, m),
                          !.at = IF m.Method = methodExit THEN "stopped" ELSE @]
    /\ UNCHANGED <<bvars, fsvars, lvars, cli, parse>>

\* a handleRequest that drops a request whose method it does not know
HandleRequest_UnknownDropped(m) ==
    /\ srv.at = "read"
    /\ Len(srv.read) < MaxMsgs
    /\ m.text = "object" /\ m.JSONRPC = jsonRPCVersion /\ m.Method # ""
    /\ HasID(m)
    /\ srv' =
         CASE m.Method = methodInitialize -> Answered(m, handleInitialize(m))
           [] m.Method = methodPing -> Answered(m, sendResult(m.ID, "", {}))
           [] m.Method = methodShutdown ->
                [Answered(m, sendResult(m.ID, "", {})) EXCEPT !.shuttingDown = TRUE]
           [] m.Method = methodToolsList -> Answered(m, handleToolsList(m))
           [] m.Method = methodToolsCall ->
                IF handleToolsCall(m).load
                THEN [srv EXCEPT !.read = Append(@, m), !.at = "load",
                                 !.cur = m, !.want = calls + 1]
                ELSE Answered(m, handleToolsCall(m).resp)
           [] OTHER -> [srv EXCEPT !.read = Append(@, m)]
    /\ UNCHANGED <<bvars, fsvars, lvars, cli, parse>>

\* Serve: a message with id goes to handleRequest; a tool call that reaches
\* s.loader.Load() waits for the call to return
HandleRequest(m) ==
    /\ srv.at = "read"
    /\ Len(srv.read) < MaxMsgs
    /\ m.text = "object" /\ m.JSONRPC = jsonRPCVersion /\ m.Method # ""
    /\ HasID(m)
    /\ srv' =
         CASE m.Method = methodInitialize -> Answered(m, handleInitialize(m))
           [] m.Method = methodPing -> Answered(m, sendResult(m.ID, "", {}))
           [] m.Method = methodShutdown ->
                [Answered(m, sendResult(m.ID, "", {})) EXCEPT !.shuttingDown = TRUE]
           [] m.Method = methodToolsList -> Answered(m, handleToolsList(m))
           [] m.Method = methodToolsCall ->
                IF handleToolsCall(m).load
                THEN [srv EXCEPT !.read = Append(@, m), !.at = "load",
                                 !.cur = m, !.want = calls + 1]
                ELSE Answered(m, handleToolsCall(m).resp)
           [] OTHER -> Answered(m, sendError(m.ID, codeMethodNotFound))
    /\ UNCHANGED <<bvars, fsvars, lvars, cli, parse>>

\* whether the Load the tool call made has returned
Loaded == calls = srv.want /\ pc["c1"] = "idle"

\* executeListPlaybooks after s.loader.Load()
executeListPlaybooks(id, r, h) ==
    IF r.err THEN sendError(id, codeInternalError)
    ELSE sendResult(id, IF DOMAIN h[r.reg] = {} THEN "No playbooks available."
                    ELSE "Available playbooks:", DOMAIN h[r.reg])

\* a get_playbook that reports a name the registry lacks as a failure of
\* the server
executeGetPlaybook_InternalError(id, name, r, h) ==
    IF r.err THEN sendError(id, codeInternalError)
    ELSE LET g == Get(h[r.reg], name) IN
         IF ~g.ok THEN sendError(id, codeInternalError)
         ELSE sendResult(id, IF TrimSpace(g.doc.Content) = "" THEN "(empty playbook)"
                             ELSE g.doc.Content, {g.doc.Name})

\* executeGetPlaybook after s.loader.Load()
executeGetPlaybook(id, name, r, h) ==
    IF r.err THEN sendError(id, codeInternalError)
    ELSE LET g == Get(h[r.reg], name) IN
         IF ~g.ok THEN sendError(id, codeInvalidParams)
         ELSE sendResult(id, IF TrimSpace(g.doc.Content) = "" THEN "(empty playbook)"
                         ELSE g.doc.Content, {g.doc.Name})

\* a tool call that makes Serve return when the loader fails
Execute_FailureStops ==
    /\ srv.at = "load"
    /\ Loaded
    /\ LET params == ParamsTable(srv.cur.Params)
           resp == IF params.Name = ToolListPlaybooks
                   THEN executeListPlaybooks(srv.cur.ID, ret["c1"], heap)
                   ELSE executeGetPlaybook(srv.cur.ID,
                            TrimSpace(params.Arguments["name"].v), ret["c1"], heap)
       IN srv' = IF ret["c1"].err
                 THEN [srv EXCEPT !.at = "failed", !.cur = NoMessage]
                 ELSE [srv EXCEPT !.at = "read", !.cur = NoMessage,
                                  !.out = Append(@, resp)]
    /\ UNCHANGED <<bvars, fsvars, lvars, cli, parse>>

\* the tool call writes its response and Serve goes back to the loop
Execute ==
    /\ srv.at = "load"
    /\ Loaded
    /\ LET params == ParamsTable(srv.cur.Params)
           resp == IF params.Name = ToolListPlaybooks
                   THEN executeListPlaybooks(srv.cur.ID, ret["c1"], heap)
                   ELSE executeGetPlaybook(srv.cur.ID,
                            TrimSpace(params.Arguments["name"].v), ret["c1"], heap)
       IN srv' = [srv EXCEPT !.at = "read", !.cur = NoMessage,
                             !.out = Append(@, resp)]
    /\ UNCHANGED <<bvars, fsvars, lvars, cli, parse>>

ServeLoad == srv.at = "load" /\ ~Loaded /\ LoadStep("c1")

ServeStep ==
    \/ ReadEOF
    \/ \E m \in ClientMessages : DecodeError(m)
    \/ \E m \in ClientMessages : InvalidRequest(m)
    \/ \E m \in ClientMessages : HandleNotification(m)
    \/ \E m \in ClientMessages : HandleRequest(m)
    \/ ServeLoad
    \/ Execute

FsServe ==
    \/ \E t \in Ticks : CreateFile(globalDir, "a.md", "md1", t)
    \/ DeleteFile(globalDir, "a.md")
    \/ Chmod(globalDir)

InitServe ==
    /\ BuildIdle
    /\ FsAt([d \in Dirs |-> "dir"], OneDocument)
    /\ LoaderNew(HistInit)
    /\ cli = CliIdle
    /\ srv = [SrvIdle EXCEPT !.at = "read"]
    /\ parse = ParseIdle

NextServe == ServeStep \/ FsServe

SpecServe == InitServe /\ [][NextServe]_vars

(***************************************************************************)
(* SpecCli: one run of the howto command, for every filesystem, argument   *)
(* list and environment within the bounds.  run() resolves the two paths,  *)
(* calls app.LoadRegistry and prints; main() turns an error into exit      *)
(* status 1.                                                               *)
(***************************************************************************)
CliArgs == {<<>>, <<"a">>, <<"b">>, <<"zz">>, <<"--version">>, <<"a", "b">>}

CliDirStats == [Dirs -> {"dir", "missing", "denied", "unreadable"}]

\* what each file of a library holds, "none" for a file that is not there
GlobalPicks ==
    {("a.md" :> x) @@ ("b.md" :> y) :
        x \in {"none", "md1", "md2", "mdBad"}, y \in {"none", "md1", "mdBad"}}

ProjectPicks ==
    {("a.md" :> x) @@ ("config.yaml" :> y) :
        x \in {"none", "md3", "mdBad"},
        y \in {"none", "cfgNone", "cfgA", "cfgBad"}}

DirOf(pick) ==
    [f \in {g \in DOMAIN pick : pick[g] # "none"} |-> File(1, pick[f])]

CliFiles(st) ==
    {[d \in Dirs |->
         IF st[d] = "missing" THEN NoFiles
         ELSE IF d = globalDir THEN DirOf(g) ELSE DirOf(p)] :
        g \in GlobalPicks, p \in ProjectPicks}

\* run(), inlining app.LoadRegistry; c is the command before the run
run(c, st, fs) ==
    LET args == c.args
        g == LoadGlobalDocs(st, fs, globalDir)
        p == LoadProjectDocs(st, fs, projectDir)
        y == LoadProjectConfig(st, fs, projectDir)
        reg == BuildRegistry(g.docs, p.docs, y.config)
        failed(kind) == [c EXCEPT !.at = "exited", !.stderr = kind, !.exit = 1]
    IN IF Len(args) > 1 THEN failed("too many arguments")
       ELSE IF Len(args) = 1 /\ args[1] = "--version"
       THEN [c EXCEPT !.at = "exited", !.stdout = "version"]
       ELSE IF ~c.home THEN failed("failed to get global config path")
       ELSE IF g.err
       THEN [failed("failed to load global docs") EXCEPT !.called = TRUE]
       ELSE IF p.err
       THEN [failed("failed to load project docs") EXCEPT
                !.called = TRUE, !.globalDocs = g.docs]
       ELSE IF y.err
       THEN [failed("failed to load project config") EXCEPT
                !.called = TRUE, !.globalDocs = g.docs, !.projectDocs = p.docs]
       ELSE LET l == [c EXCEPT !.at = "exited", !.called = TRUE, !.loaded = TRUE,
                               !.globalDocs = g.docs, !.projectDocs = p.docs,
                               !.projectConfig = y.config, !.reg = reg]
            IN IF Len(args) = 0 THEN [l EXCEPT !.stdout = "help"]
               ELSE IF Has(reg, args[1])
               THEN [l EXCEPT !.stdout = Get(reg, args[1]).doc.Content]
               ELSE [l EXCEPT !.stderr = "unknown playbook", !.exit = 1]

\* main(): if err := run(); err != nil { ...; os.Exit(1) }
Main ==
    /\ cli.at = "start"
    /\ cli' = run(cli, dirStat, files)
    /\ UNCHANGED <<bvars, fsvars, lvars, srv, parse>>

InitCli ==
    /\ BuildIdle
    /\ LoaderNew(HistInit)
    /\ srv = SrvIdle
    /\ parse = ParseIdle
    /\ now = 1
    /\ changes = 0
    /\ dirStat \in CliDirStats
    /\ files \in CliFiles(dirStat)
    /\ cli \in {[CliIdle EXCEPT !.at = "start", !.args = a, !.home = h] :
                   a \in CliArgs, h \in BOOLEAN}

SpecCli == InitCli /\ [][Main]_vars

(***************************************************************************)
(* SpecWalk: one run of the command without argument over a library that   *)
(* holds, next to a.md, a file with the suffix in capitals, a directory    *)
(* and a file named d.md, a file that is no document, and a subdirectory   *)
(* with a document in it; the other library is empty.                      *)
(***************************************************************************)
WalkPicks ==
    {("B.MD" :> u) @@ ("a.md" :> v) @@ ("d.md" :> w) @@ ("notes.txt" :> x)
        @@ ("sub" :> y) @@ ("sub/a.md" :> z) :
        u \in {"none", "md1", "md3"}, v \in {"none", "md1", "mdBad"},
        w \in {"none", "dir", "md1"}, x \in {"none", "md1"},
        y \in {"none", "dir"}, z \in {"none", "md3"}}

WalkFiles ==
    {[d \in Dirs |-> IF d = root THEN DirOf(pick) ELSE NoFiles] :
        root \in Dirs,
        pick \in {k \in WalkPicks : k["sub/a.md"] # "none" => k["sub"] = "dir"}}

InitWalk ==
    /\ BuildIdle
    /\ LoaderNew(HistInit)
    /\ srv = SrvIdle
    /\ parse = ParseIdle
    /\ now = 1
    /\ changes = 0
    /\ dirStat = [d \in Dirs |-> "dir"]
    /\ files \in WalkFiles
    /\ cli = [CliIdle EXCEPT !.at = "start"]

SpecWalk == InitWalk /\ [][Main]_vars

(***************************************************************************)
(* SpecParse: extractFrontmatter on every file made of an opening          *)
(* delimiter line, one line of metadata, a closing delimiter line and a    *)
(* text of at most MaxBody bytes, each line ending in "\n" or "\r\n"; a    *)
(* file without text may end right after the closing "---".                *)
(***************************************************************************)
MaxBody == 3

BodyAlphabet == {"-", LF, CR, " ", "a"}

LineEnds == {<<LF>>, <<CR, LF>>}

\* description: D
MetaLine == <<"d", ":", " ", "D">>

DocumentFiles ==
    {[content |-> Dashes \o e1 \o MetaLine \o e2 \o Dashes \o e3 \o text,
      meta |-> MetaLine, text |-> text] :
        e1 \in LineEnds, e2 \in LineEnds, e3 \in LineEnds,
        text \in SeqsUpTo(BodyAlphabet, MaxBody)}
    \cup {[content |-> Dashes \o e1 \o MetaLine \o e2 \o Dashes,
           meta |-> MetaLine, text |-> NoBytes] :
             e1 \in LineEnds, e2 \in LineEnds}

\* fm, body, err := extractFrontmatter(content)
ExtractFrontmatter ==
    /\ parse.at = "start"
    /\ LET r == extractFrontmatter(parse.content)
       IN parse' = [parse EXCEPT !.at = "done", !.err = r.err,
                                 !.frontmatter = r.frontmatter, !.body = r.body]
    /\ UNCHANGED <<bvars, fsvars, lvars, cli, srv>>

InitParse ==
    /\ BuildIdle
    /\ FsAt([d \in Dirs |-> "dir"], OneDocument)
    /\ LoaderNew(HistInit)
    /\ cli = CliIdle
    /\ srv = SrvIdle
    /\ parse \in {[ParseIdle EXCEPT !.at = "start", !.content = f.content,
                                    !.meta = f.meta, !.text = f.text] :
                     f \in DocumentFiles}

SpecParse == InitParse /\ [][ExtractFrontmatter]_vars

(***************************************************************************)
(* SpecDocs: app.LoadRegistry (one run of the command without argument)    *)
(* and CachedRegistryLoader.Load over every pair of libraries whose files  *)
(* hold a document, a document without description or a document with an  *)
(* empty description.  The files do not change.                            *)
(***************************************************************************)
DocsFiles(st) ==
    LET globalPicks ==
            {("a.md" :> x) @@ ("b.md" :> y) :
                x \in {"none", "md1", "mdBad", "mdEmpty"},
                y \in {"none", "md1", "mdEmpty"}}
        projectPicks ==
            {("a.md" :> x) @@ ("config.yaml" :> y) :
                x \in {"none", "md3", "mdBad", "mdEmpty"},
                y \in {"none", "cfgA", "cfgBad"}}
    IN {[d \in Dirs |->
            IF st[d] = "missing" THEN NoFiles
            ELSE IF d = globalDir THEN DirOf(g) ELSE DirOf(p)] :
           g \in globalPicks, p \in projectPicks}

InitDocs ==
    /\ BuildIdle
    /\ LoaderNew(HistInit)
    /\ srv = SrvIdle
    /\ parse = ParseIdle
    /\ now = 1
    /\ changes = 0
    /\ dirStat \in CliDirStats
    /\ files \in DocsFiles(dirStat)
    /\ cli = [CliIdle EXCEPT !.at = "start"]

NextDocs == Main \/ LoadStep("c1")

SpecDocs == InitDocs /\ [][NextDocs]_vars

(***************************************************************************)
(* Claims about BuildRegistry (SpecBuild)                                  *)
(***************************************************************************)
RequireSet == {projectConfig.Require[i] : i \in 1..Len(projectConfig.Require)}

GlobalNamed(n) == {i \in 1..Len(globalDocs) : globalDocs[i].Name = n}
ProjectNamed(n) == {i \in 1..Len(projectDocs) : projectDocs[i].Name = n}

\* C1: the built registry contains a name if and only if some project
\* document has that name, or some global document has that name and is
\* required or named in the require list.
C1_InclusionPolicy ==
    phase = "built" =>
        \A n \in Names \cup DOMAIN built :
            Has(built, n) <=>
                \/ ProjectNamed(n) # {}
                \/ \E i \in GlobalNamed(n) :
                      globalDocs[i].Required \/ n \in RequireSet

C1_Witness ==
    /\ phase = "built"
    /\ \E i \in 1..Len(globalDocs) :
          ~globalDocs[i].Required /\ ~Has(built, globalDocs[i].Name)
    /\ \E i \in 1..Len(globalDocs) :
          /\ ~globalDocs[i].Required
          /\ ProjectNamed(globalDocs[i].Name) = {}
          /\ Has(built, globalDocs[i].Name)

\* C2: when a global and a project document share a name, Get returns the
\* project document (the last of that name), every field of it, and nothing
\* of the global one.
C2_ProjectOverrides ==
    phase = "built" =>
        \A n \in Names :
            (GlobalNamed(n) # {} /\ ProjectNamed(n) # {}) =>
                LET j == CHOOSE k \in ProjectNamed(n) : \A m \in ProjectNamed(n) : m <= k
                    g == Get(built, n)
                IN /\ g.ok
                   /\ g.doc = projectDocs[j]
                   /\ \A i \in GlobalNamed(n) :
                         /\ g.doc.Description # globalDocs[i].Description
                         /\ g.doc.Content # globalDocs[i].Content
                         /\ g.doc.Source # globalDocs[i].Source
                         /\ g.doc.FilePath # globalDocs[i].FilePath

C2_Witness ==
    /\ phase = "built"
    /\ \E n \in Names :
          /\ ProjectNamed(n) # {}
          /\ \E i \in GlobalNamed(n) : globalDocs[i].Required
          /\ \E i \in GlobalNamed(n) : globalDocs[i].Required # built[n].Required

\* C3: no entry of the built registry is a global-origin document with
\* required=false whose name is not in the require list.
C3_NoUnrequiredGlobal ==
    phase = "built" =>
        \A n \in DOMAIN built :
            ~(/\ built[n].Source = SourceGlobal
              /\ ~built[n].Required
              /\ built[n].Name \notin RequireSet)

C3_Witness ==
    /\ phase = "built"
    /\ \E i \in 1..Len(globalDocs) :
          /\ ~globalDocs[i].Required
          /\ globalDocs[i].Name \notin RequireSet
          /\ ~Has(built, globalDocs[i].Name)
    /\ \E n \in DOMAIN built : built[n].Source = SourceGlobal

(***************************************************************************)
(* Claims about CachedRegistryLoader.Load (Spec, SpecCallers)              *)
(***************************************************************************)
\* the caller's Load has its result and is about to release c.mu
Returning(c) == pc[c] = "unlock"

Result(c) == heap[ret[c].reg]

\* C4: a Load served from the cache returns the registry an uncached build
\* of the filesystem at the time of the call produces (stated for the calls
\* during which the filesystem did not change).
C4_CacheIsFresh ==
    \A c \in Callers :
        (Returning(c) /\ loc[c].hit /\ ~hist.changed) =>
            LET u == LoadRegistry(dirStat, files)
            IN ~u.err /\ Result(c) = u.reg

ModifiedSinceReturn ==
    \E d \in Dirs : \E f \in (DOMAIN files[d]) \cap (DOMAIN hist.atReturn[d]) :
        /\ IsMd(f)
        /\ files[d][f].data # hist.atReturn[d][f].data
        /\ \/ files[d][f].mtime # hist.atReturn[d][f].mtime
           \/ Size(files[d][f].data) # Size(hist.atReturn[d][f].data)

\* C6: when a loaded file was modified between two completed Loads, with a
\* change of size or modification time, the second Load rebuilds and returns
\* the registry of the new content.
C6_ModifiedFileReloaded ==
    \A c \in Callers :
        (/\ Returning(c) /\ ~ret[c].err /\ ~hist.changed
         /\ hist.tracking /\ hist.returned /\ ModifiedSinceReturn) =>
            /\ loc[c].rebuilt
            /\ Result(c) = LoadRegistry(dirStat, files).reg

\* C7: a Load that fails returns no registry and leaves c.signature, c.cached
\* and the cached map as they were when the call began.
C7_FailureKeepsCache ==
    \A c \in Callers :
        (Returning(c) /\ ret[c].err) =>
            /\ ret[c].reg = Nil
            /\ cached = hist.pre.cached
            /\ signature = hist.pre.signature
            /\ cached # Nil => heap[cached] = hist.pre.value

C7_Witness ==
    \E c \in Callers :
        /\ Returning(c) /\ ret[c].err
        /\ loc[c].rebuilt
        /\ cached # Nil
        /\ signature # loc[c].currentSignature

\* C8: at most one caller is between Lock and Unlock, at most one of the
\* Loads made on an unchanged filesystem builds and stores a registry, and a
\* Load served from the cache returns the stored snapshot.
C8_CriticalSection ==
    /\ Cardinality({c \in Callers : pc[c] # "idle"}) <= 1
    /\ hist.rebuilds <= 1
    /\ \A c \in Callers :
          (Returning(c) /\ ~ret[c].err /\ ~hist.changed /\ hist.rebuilds = 1) =>
              Result(c) = hist.snapshot

C8_Witness ==
    \E c \in Callers, o \in Callers :
        /\ c # o
        /\ Returning(c) /\ loc[c].hit /\ ~hist.changed
        /\ hist.rebuilds = 1
        /\ ret[o].reg # Nil

\* C9: whenever c.mu is free, either c.cached and c.signature are both unset,
\* or both are set and were written by the same Load call.
C9_NeverPartial ==
    mu = NoCaller =>
        \/ cached = Nil /\ signature = NoSignature
        \/ /\ cached # Nil
           /\ signature.set
           /\ hist.cachedBy > 0
           /\ hist.cachedBy = hist.signatureBy

C9_Witness ==
    /\ mu = NoCaller
    /\ cached # Nil
    /\ hist.cachedBy = 2
    /\ \E c \in Callers : ret[c].reg # Nil /\ Result(c) # hist.snapshot

\* C10: the cached map holds what LoadRegistry built whatever the callers do
\* to the registries they were given, each caller's registry holds what that
\* caller made of it, and a later Load served from the cache returns the
\* snapshot.
C10_IndependentCopies ==
    /\ cached # Nil => heap[cached] = hist.snapshot
    /\ \A c \in Callers : ret[c].reg # Nil => Result(c) = hist.own[c]
    /\ \A c \in Callers : (Returning(c) /\ loc[c].hit) => Result(c) = hist.snapshot

C10_Witness ==
    \E c \in Callers, o \in Callers :
        /\ c # o
        /\ Returning(c) /\ loc[c].hit
        /\ ret[o].reg # Nil
        /\ Result(o) # hist.snapshot
        /\ "a" \in DOMAIN Result(o) => Result(o)["a"] = StrayDoc

\* the two states of the loader
Cold == cached = Nil /\ signature = NoSignature

Warm == cached # Nil /\ signature.set

\* C11: the loader starts Cold; a stored snapshot and a stored signature are
\* never removed; the loader becomes Warm only by the c.signature assignment
\* of a Load whose build succeeded; and once a Load has returned a registry
\* the loader is Warm in every later state.
C11_ColdThenWarm ==
    /\ Cold
    /\ [][/\ (cached # Nil => cached' # Nil)
          /\ (signature.set => signature'.set)
          /\ (~Warm /\ Warm') =>
                \E c \in Callers : /\ pc[c] = "storeSignature"
                                   /\ loc[c].reg # Nil
                                   /\ cached = loc[c].reg
          /\ (hist.returned => Warm)
          /\ (hist.returned' => Warm')]_vars

C11_Witness ==
    \E c \in Callers :
        /\ Returning(c) /\ ret[c].err
        /\ hist.returned /\ Warm
        /\ hist.pre.cached # Nil

(***************************************************************************)
(* Claims about missing, unreadable and malformed sources                  *)
(***************************************************************************)
\* the origin the loader of a source directory gives its documents
SourceOf(d) == IF d = globalDir THEN SourceGlobal ELSE SourceProjectScoped

\* the names of the registry entries that come from one side
FromSide(reg, d) == {n \in DOMAIN reg : reg[n].Source = SourceOf(d)}

\* the filesystem with the directory d there and empty
WithEmptyDir(d) ==
    [st |-> [dirStat EXCEPT ![d] = "dir"], fs |-> [files EXCEPT ![d] = NoFiles]]

\* C12: while a source root is not there, the document loader returns no
\* documents and no error for it, LoadRegistry fails or succeeds as with the
\* directory there and empty and its registry has no document from that
\* side, and a Load made while the root is not there succeeds whenever
\* LoadRegistry does, with a registry that has no document from that side.
C12_MissingRootTolerated ==
    \A d \in Dirs :
        dirStat[d] = "missing" =>
            LET u == LoadRegistry(dirStat, files)
                e == LoadRegistry(WithEmptyDir(d).st, WithEmptyDir(d).fs)
            IN /\ loadDocs(dirStat, files, d, SourceOf(d)) =
                      [err |-> FALSE, docs |-> <<>>]
               /\ u.err = e.err
               /\ FromSide(u.reg, d) = {}
               /\ \A c \in Callers :
                     (Returning(c) /\ ~hist.changed) =>
                         /\ ~u.err => ~ret[c].err
                         /\ ~ret[c].err => FromSide(Result(c), d) = {}

\* an empty source directory was created, or removed, since the last
\* successful Load returned
EmptyDirToggled ==
    \E d \in Dirs :
        \/ /\ hist.statAtReturn[d] = "missing"
           /\ dirStat[d] = "dir" /\ DOMAIN files[d] = {}
        \/ /\ hist.statAtReturn[d] = "dir" /\ DOMAIN hist.atReturn[d] = {}
           /\ dirStat[d] = "missing"

\* C13: the signature with a source directory absent differs from the
\* signature with that directory there and empty; and a Load that completes
\* after an empty source directory was created or removed since the last
\* completed Load rebuilds.
C13_AbsentIsNotEmpty ==
    /\ \A d \in Dirs :
          (dirStat[d] = "dir" /\ DOMAIN files[d] = {}) =>
              LET there == computeSignature(dirStat, files)
                  absent == computeSignature([dirStat EXCEPT ![d] = "missing"], files)
              IN (~there.err /\ ~absent.err) => there.sig # absent.sig
    /\ \A c \in Callers :
          (/\ Returning(c) /\ ~ret[c].err /\ ~hist.changed
           /\ hist.tracking /\ hist.returned /\ EmptyDirToggled) =>
              loc[c].rebuilt

\* the project directory holds a configuration file that cannot be decoded
ConfigMalformed ==
    /\ dirStat[projectDir] = "dir"
    /\ "config.yaml" \in DOMAIN files[projectDir]
    /\ ConfigYaml(files[projectDir]["config.yaml"].data).err

\* C14: while the project configuration file is there and cannot be decoded,
\* LoadProjectConfig returns an error, LoadRegistry returns an error and no
\* registry, and a Load made in that time returns an error and no registry.
C14_MalformedConfigFails ==
    ConfigMalformed =>
        /\ LoadProjectConfig(dirStat, files, projectDir).err
        /\ LoadRegistry(dirStat, files) = [err |-> TRUE, reg |-> EmptyRegistry]
        /\ \A c \in Callers :
              (Returning(c) /\ ~hist.changed) =>
                  ret[c].err /\ ret[c].reg = Nil

(***************************************************************************)
(* Claims about one run of the command (SpecCli)                           *)
(***************************************************************************)
ConfigAbsent ==
    \/ dirStat[projectDir] = "missing"
    \/ dirStat[projectDir] = "dir" /\ "config.yaml" \notin DOMAIN files[projectDir]

\* the same filesystem with a project configuration file holding data
WithConfig(data) ==
    [st |-> [dirStat EXCEPT ![projectDir] = "dir"],
     fs |-> [files EXCEPT ![projectDir] =
                ("config.yaml" :> File(1, data)) @@ files[projectDir]]]

\* C15: an absent project configuration file, or an absent project
\* directory, is an empty require list and not an error: LoadProjectConfig
\* succeeds with an empty list, and the registry the command built is the
\* registry built with a configuration file whose require list is empty.
C15_AbsentConfigIsEmpty ==
    ConfigAbsent =>
        /\ LoadProjectConfig(dirStat, files, projectDir) =
              [err |-> FALSE, config |-> ProjectConfig(<<>>)]
        /\ cli.loaded =>
              /\ cli.projectConfig = ProjectConfig(<<>>)
              /\ LET w == WithConfig("cfgNone")
                     r == LoadRegistry(w.st, w.fs)
                 IN ~r.err /\ cli.reg = r.reg

\* the command ran without a configuration file and left out a global
\* document that is not required
C15_Witness ==
    /\ cli.at = "exited"
    /\ cli.loaded
    /\ ConfigAbsent
    /\ \E i \in DOMAIN cli.globalDocs :
          cli.globalDocs[i].Name \notin DOMAIN cli.reg

\* the eligible files of a directory that parse
ParsedFiles(d) ==
    {f \in DOMAIN files[d] : IsMd(f) /\ ~ParseFile(files, d, f, SourceOf(d)).err}

FailedFiles(d) ==
    {f \in DOMAIN files[d] : IsMd(f) /\ ParseFile(files, d, f, SourceOf(d)).err}

SeqRange(q) == {q[i] : i \in DOMAIN q}

\* C16: a file that fails to parse never aborts loading: for every content
\* of a directory the loader succeeds and returns exactly the documents of
\* the eligible files that parse, one each, and the command that loaded
\* the global library holds exactly those.
C16_ParseFailureSkipped ==
    /\ \A d \in Dirs :
          dirStat[d] = "dir" =>
              LET r == loadDocs(dirStat, files, d, SourceOf(d)) IN
              /\ ~r.err
              /\ Len(r.docs) = Cardinality(ParsedFiles(d))
              /\ SeqRange(r.docs) =
                    {ParseFile(files, d, f, SourceOf(d)).doc : f \in ParsedFiles(d)}
    /\ cli.called /\ dirStat[globalDir] = "dir" =>
          /\ cli.stderr # "failed to load global docs"
          /\ cli.globalDocs = LoadGlobalDocs(dirStat, files, globalDir).docs
          /\ Len(cli.globalDocs) = Cardinality(ParsedFiles(globalDir))

\* the command loaded a library in which one file parses and another fails
C16_Witness ==
    /\ cli.at = "exited"
    /\ cli.loaded
    /\ dirStat[globalDir] = "dir"
    /\ FailedFiles(globalDir) # {}
    /\ ParsedFiles(globalDir) # {}
    /\ Len(cli.globalDocs) = 1

Unwalkable(d) == dirStat[d] \in {"denied", "unreadable"}

\* C17: when a source directory exists but cannot be statted or walked,
\* the operation aborts with an error and returns no registry: the
\* signature computation of the cached loader fails, and a run of the
\* command that reached LoadRegistry exits non-zero without a registry.
C17_UnwalkableDirAborts ==
    (\E d \in Dirs : Unwalkable(d)) =>
        /\ computeSignature(dirStat, files).err
        /\ cli.called => ~cli.loaded /\ cli.exit # 0

\* C18: the command exits with a non-zero status whenever a document file
\* of one of the libraries fails to parse.
C18_ParseFailureExitsNonZero ==
    /\ cli.at = "exited"
    /\ cli.called
    /\ \E d \in Dirs : dirStat[d] = "dir" /\ FailedFiles(d) # {}
    => cli.exit # 0

(***************************************************************************)
(* Claims about the MCP server (SpecServe)                                 *)
(***************************************************************************)
\* the ids of the messages of q that carry one, in order
IdsOf(q) ==
    LET w == SelectSeq(q, HasID) IN [i \in DOMAIN w |-> w[i].ID]

WellFormed(q) == \A i \in DOMAIN q : q[i].text # "syntax"

\* C19: for every sequence of well-formed JSON messages read by Serve,
\* each message that carries an id gets exactly one response with that id,
\* and the responses are written in the order the requests were read; the
\* request a tool call is still executing is the only one not yet answered.
C19_EveryRequestAnswered ==
    WellFormed(srv.read) =>
        LET ids == IdsOf(srv.read)
            answered == IF srv.at = "load" THEN SubSeq(ids, 1, Len(ids) - 1) ELSE ids
        IN [i \in DOMAIN srv.out |-> srv.out[i].ID] = answered

\* the tool call being executed asks for a playbook the registry that Load
\* returned does not have
AsksAbsentName ==
    /\ srv.at = "load"
    /\ Loaded
    /\ ParamsTable(srv.cur.Params).Name = ToolGetPlaybook
    /\ ~ret["c1"].err
    /\ ~Has(heap[ret["c1"].reg],
            TrimSpace(ParamsTable(srv.cur.Params).Arguments["name"].v))

\* C20: a get_playbook call whose name is absent from the registry the
\* loader returned is answered with the error invalid-params (-32602),
\* never with internal-error and never with a result: the step of the
\* server that follows the Load writes that error, and leaves the server
\* at the top of its loop, reading the next message.
C20_UnknownPlaybookInvalidParams ==
    [][AsksAbsentName /\ srv' # srv =>
          /\ srv'.out = Append(srv.out, sendError(srv.cur.ID, codeInvalidParams))
          /\ srv'.out[Len(srv'.out)].Code = -32602
          /\ srv'.at = "read"]_vars

\* get_playbook for "a" was answered invalid-params after a Load that
\* returned a registry, and the next request was answered with a result
C20_Witness ==
    /\ Len(srv.out) = 2
    /\ srv.read[1] = Request("2", methodToolsCall, "getA")
    /\ srv.out[1] = sendError("2", codeInvalidParams)
    /\ ~srv.out[2].error
    /\ calls = 1
    /\ hist.returned

\* C21: when the server reads input that cannot be decoded as a JSON-RPC
\* message, it answers with a parse-error object (-32700) and goes on with
\* the following requests instead of terminating.
C21_MalformedAnswered ==
    \A i \in DOMAIN srv.read :
        srv.read[i].text # "object" =>
            /\ srv.at # "failed"
            /\ \E j \in DOMAIN srv.out : srv.out[j].Code = codeParseError

\* the step reads one more message; Arrived is that message
Arrives == Len(srv'.read) = Len(srv.read) + 1

Arrived == srv'.read[Len(srv'.read)]

SupportedMethods ==
    {methodInitialize, methodPing, methodShutdown, methodToolsList, methodToolsCall}

\* the step writes the error code for the message it read, and nothing
\* else, and leaves the server at the top of its loop
AnswersError(code) ==
    /\ srv'.out = Append(srv.out, sendError(Arrived.ID, code))
    /\ srv'.at = "read"

\* C22: a request with an id whose method is not a supported one is
\* answered with method-not-found (-32601) and the server goes on with the
\* next message; a request with an id and another jsonrpc version, or
\* with an empty method, is answered with invalid-request (-32600).
C22_UnknownMethodAndInvalidRequest ==
    [][Arrives /\ Arrived.text = "object" /\ HasID(Arrived) =>
          /\ (Arrived.JSONRPC # "2.0" \/ Arrived.Method = "") =>
                AnswersError(codeInvalidRequest) /\ codeInvalidRequest = -32600
          /\ (Arrived.JSONRPC = "2.0" /\ Arrived.Method # ""
                 /\ Arrived.Method \notin SupportedMethods) =>
                AnswersError(codeMethodNotFound) /\ codeMethodNotFound = -32601]_vars

\* an unknown method, then a request of another version, each answered
C22_Witness ==
    /\ Len(srv.read) = 2
    /\ srv.read[1] = Request("1", "resources/list", "absent")
    /\ srv.read[2].JSONRPC = "1.0"
    /\ srv.out = <<sendError("1", codeMethodNotFound),
                   sendError("1", codeInvalidRequest)>>
    /\ srv.at = "read"

\* a tools/call that decodes and names a tool the server does not have
NamesOtherTool(m) ==
    /\ m.text = "object" /\ m.JSONRPC = "2.0" /\ HasID(m)
    /\ m.Method = methodToolsCall
    /\ ~ParamsTable(m.Params).err
    /\ ParamsTable(m.Params).Name \notin {"list_playbooks", "get_playbook"}

\* C23: a tools/call naming a tool other than list_playbooks and
\* get_playbook is answered with an error of code invalid-params, never
\* with a result, the loader is not called, and the server keeps serving.
C23_UnknownToolInvalidParams ==
    [][Arrives /\ NamesOtherTool(Arrived) =>
          /\ AnswersError(codeInvalidParams)
          /\ srv'.out[Len(srv'.out)].error
          /\ srv'.out[Len(srv'.out)].Code = -32602
          /\ UNCHANGED <<calls, pc, mu, ret>>]_vars

\* an unknown tool was refused without a Load, and the next tool call was
\* answered with a result after one
C23_Witness ==
    /\ Len(srv.read) = 2
    /\ srv.read[1] = Request("1", methodToolsCall, "other")
    /\ Len(srv.out) = 2
    /\ srv.out[1] = sendError("1", codeInvalidParams)
    /\ ~srv.out[2].error
    /\ calls = 1

(***************************************************************************)
(* Claims about the output of the command (SpecCli)                        *)
(***************************************************************************)
\* C24: the command run with one positional argument prints the body of
\* the registry document of that name when the registry has it; when the
\* registry lacks the name it prints no body and fails with "unknown
\* playbook" and a non-zero exit, and that error comes from the lookup in
\* a registry that was loaded, not from a failure to load.
C24_OneArgumentPrintsBody ==
    (cli.at = "exited" /\ Len(cli.args) = 1 /\ cli.args[1] # "--version") =>
        /\ cli.loaded =>
              /\ cli.reg = LoadRegistry(dirStat, files).reg
              /\ IF cli.args[1] \in DOMAIN cli.reg
                 THEN /\ cli.stdout = cli.reg[cli.args[1]].Content
                      /\ cli.stderr = ""
                      /\ cli.exit = 0
                 ELSE /\ cli.stdout = ""
                      /\ cli.stderr = "unknown playbook"
                      /\ cli.exit # 0
        /\ cli.stderr = "unknown playbook" =>
              cli.loaded /\ ~LoadRegistry(dirStat, files).err

\* the command printed the body of b from a registry that also holds a
C24_Witness ==
    /\ cli.at = "exited"
    /\ cli.args = <<"b">>
    /\ DOMAIN cli.reg = {"a", "b"}
    /\ cli.stdout = cli.reg["b"].Content
    /\ cli.stdout # cli.reg["a"].Content
    /\ cli.exit = 0

(***************************************************************************)
(* Claims about List, GetAll and DocumentsToList (SpecList, SpecBuildList) *)
(***************************************************************************)
\* the key the names are to be sorted by: the basename of the source file,
\* the name itself for a document with no known path
KeyOf(reg, n) == IF reg[n].FilePath = "" THEN n ELSE Base(reg[n].FilePath)

Once(q, S) == Len(q) = Cardinality(S) /\ {q[i] : i \in DOMAIN q} = S

SortedByKey(reg, q) ==
    \A i \in DOMAIN q : \A j \in DOMAIN q :
        i < j =>
            \/ Rank(KeyOf(reg, q[i])) < Rank(KeyOf(reg, q[j]))
            \/ KeyOf(reg, q[i]) = KeyOf(reg, q[j]) /\ Rank(q[i]) < Rank(q[j])

\* C25: for every registry, List() returns each name exactly once, sorted
\* by the basename of the document's source file, or by the name itself
\* for a document with no known path, and by name among equal keys, also
\* when documents with and without a path are mixed.
C25_ListSortedByBasename ==
    phase = "listed" =>
        /\ Once(listed.List, DOMAIN built)
        /\ SortedByKey(built, listed.List)

\* C26: for every registry built by BuildRegistry, GetAll() has the length
\* and the order of List(): its i-th document is the one the registry maps
\* the i-th name of List() to, and carries that name; DocumentsToList
\* returns the same sequence.
C26_GetAllFollowsList ==
    phase = "listed" =>
        /\ Len(listed.GetAll) = Len(listed.List)
        /\ \A i \in DOMAIN listed.List :
              /\ listed.GetAll[i] = built[listed.List[i]]
              /\ listed.GetAll[i].Name = listed.List[i]
        /\ listed.DocumentsToList = listed.GetAll

\* a registry of a global and a project document was listed
C26_Witness ==
    /\ phase = "listed"
    /\ built = BuildRegistry(globalDocs, projectDocs, projectConfig)
    /\ Len(listed.GetAll) = 2
    /\ listed.GetAll[1].Source # listed.GetAll[2].Source

(***************************************************************************)
(* Claims about duplicates and empty inputs of BuildRegistry (SpecBuild)   *)
(***************************************************************************)
Last(S) == CHOOSE k \in S : \A m \in S : m <= k

\* the global documents named n that pass the filter of the first loop
GlobalIncluded(n) ==
    {i \in GlobalNamed(n) : globalDocs[i].Required \/ n \in RequireSet}

\* C27 as stated: when globalDocs holds two or more documents of one name
\* and no project document has that name, the registry entry of the name is
\* the last of them in input order; when projectDocs holds several
\* documents of one name the entry is the last of them.
C27_LastDuplicateWins ==
    phase = "built" =>
        \A n \in Names :
            /\ (Cardinality(GlobalNamed(n)) >= 2 /\ ProjectNamed(n) = {}) =>
                  Has(built, n) /\ built[n] = globalDocs[Last(GlobalNamed(n))]
            /\ Cardinality(ProjectNamed(n)) >= 2 =>
                  Has(built, n) /\ built[n] = projectDocs[Last(ProjectNamed(n))]

\* C27 amended: among several global documents of one name that no project
\* document has, the entry is the last of those that pass the inclusion
\* filter, and there is no entry when none passes; among several project
\* documents of one name the entry is the last of them.
C27_LastIncludedDuplicateWins ==
    phase = "built" =>
        \A n \in Names :
            /\ (Cardinality(GlobalNamed(n)) >= 2 /\ ProjectNamed(n) = {}) =>
                  IF GlobalIncluded(n) = {} THEN ~Has(built, n)
                  ELSE Has(built, n) /\ built[n] = globalDocs[Last(GlobalIncluded(n))]
            /\ Cardinality(ProjectNamed(n)) >= 2 =>
                  Has(built, n) /\ built[n] = projectDocs[Last(ProjectNamed(n))]

\* two included global documents of one name with different content, and
\* the second is the entry
C27_Witness ==
    /\ phase = "built"
    /\ Len(globalDocs) = 2
    /\ globalDocs[1].Name = globalDocs[2].Name
    /\ globalDocs[1].Content # globalDocs[2].Content
    /\ GlobalIncluded(globalDocs[1].Name) = {1, 2}
    /\ ProjectNamed(globalDocs[1].Name) = {}
    /\ built[globalDocs[1].Name] = globalDocs[2]

\* C28: a list of documents that is absent (a nil slice, which has length
\* 0 and ranges over nothing, the empty sequence of the model) gives the
\* registry of the other list alone; with no documents on either side and
\* an empty configuration Count() is 0, List() is empty and Get of any
\* name reports not-found.
C28_EmptyInputs ==
    phase \in {"built", "listed"} =>
        /\ globalDocs = <<>> =>
              \A n \in Names \cup DOMAIN built :
                  Has(built, n) <=> ProjectNamed(n) # {}
        /\ projectDocs = <<>> =>
              \A n \in DOMAIN built : built[n].Source = SourceGlobal
        /\ (globalDocs = <<>> /\ projectDocs = <<>>
              /\ projectConfig = ProjectConfig(<<>>)) =>
              /\ Count(built) = 0
              /\ phase = "listed" =>
                    listed.List = <<>> /\ listed.GetAll = <<>>
              /\ \A n \in Names : ~Get(built, n).ok

\* the registry of no documents and an empty configuration was listed
C28_Witness ==
    /\ phase = "listed"
    /\ globalDocs = <<>>
    /\ projectDocs = <<>>
    /\ projectConfig = ProjectConfig(<<>>)
    /\ built = EmptyRegistry
    /\ listed.List = <<>>

(***************************************************************************)
(* Claims about the walk of a library (SpecWalk)                           *)
(***************************************************************************)
\* the name of an entry in small letters, and whether that ends in .md
ToLowerName(f) == IF f = "B.MD" THEN "b.md" ELSE f

EndsInMd(str) == str \in {"a.md", "b.md", "d.md", "sub/a.md"}

\* the entries of d that are no directory and whose name ends in .md
\* whatever the case of its letters
EligibleFiles(d) ==
    {f \in DOMAIN files[d] : ~IsDir(files[d][f]) /\ EndsInMd(ToLowerName(f))}

\* the base name of a document file without its suffix
Stem(path) ==
    CASE Base(path) = "a.md" -> "a"
      [] Base(path) = "b.md" -> "b"
      [] Base(path) = "d.md" -> "d"
      [] Base(path) = "B.MD" -> "B"

LoadedDocs == SeqRange(cli.globalDocs) \cup SeqRange(cli.projectDocs)

\* C29: for every eligible document file (suffix .md in any letter case)
\* whose metadata gives no name, the name of the loaded document is the
\* file's base name with the suffix removed.
C29_DefaultNameIsStem ==
    cli.loaded => \A doc \in LoadedDocs : doc.Name = Stem(doc.FilePath)

\* C30: the loader hands a file to the parser if and only if it is an
\* entry that is no directory, at any depth below the root, whose name ends
\* in .md compared without regard to case: the documents loaded are those
\* of exactly these files, less the ones the parser rejects, and every
\* other file and every directory gives no document and no error.
C30_EligibleFilesParsed ==
    /\ \A d \in Dirs :
          LET r == loadDocs(dirStat, files, d, SourceOf(d)) IN
          /\ ~r.err
          /\ Len(r.docs) = Cardinality({f \in EligibleFiles(d) : files[d][f].data # "mdBad"})
          /\ {doc.FilePath : doc \in SeqRange(r.docs)} =
                {Join(d, f) : f \in {g \in EligibleFiles(d) : files[d][g].data # "mdBad"}}
          /\ \A doc \in SeqRange(r.docs) : doc.Source = SourceOf(d)
    /\ cli.at = "exited" =>
          /\ cli.loaded /\ cli.exit = 0
          /\ cli.globalDocs = loadDocs(dirStat, files, globalDir, SourceGlobal).docs
          /\ cli.projectDocs =
                loadDocs(dirStat, files, projectDir, SourceProjectScoped).docs

\* the command loaded a library with B.MD, a directory d.md, notes.txt and
\* sub/a.md, and holds the documents of B.MD and sub/a.md only
C30_Witness ==
    /\ cli.at = "exited"
    /\ DOMAIN files[globalDir] = {"B.MD", "d.md", "notes.txt", "sub", "sub/a.md"}
    /\ IsDir(files[globalDir]["d.md"])
    /\ Len(cli.globalDocs) = 2
    /\ cli.globalDocs[1].FilePath = "global/B.MD"
    /\ cli.globalDocs[2].FilePath = "global/sub/a.md"

(***************************************************************************)
(* C31: for every document file with a valid metadata block, the body that *)
(* the parser returns is the text after the closing delimiter line with    *)
(* the blank lines at its two ends removed, and nothing else removed or    *)
(* changed.  The blank lines are taken with the white space next to them:  *)
(* the expected body is the text without the white space at its two ends,  *)
(* as TestParseContent_WhitespaceHandling expects it.                      *)
(***************************************************************************)
C31_BodyIsTrimmedText ==
    parse.at = "done" =>
        /\ ~parse.err
        /\ parse.body = BytesTrimSpace(parse.text)

(***************************************************************************)
(* C32: a document file without description, or with an empty one, fails   *)
(* to parse: no registry that LoadRegistry or CachedRegistryLoader.Load    *)
(* produces holds a document with an empty description, nor a document of  *)
(* such a file.                                                            *)
(***************************************************************************)
\* the paths of the files whose metadata lacks a description
Undescribed ==
    UNION {{Join(d, f) : f \in {g \in DOMAIN files[d] :
                                    files[d][g].data \in BadMdContents}} :
           d \in Dirs}

Described(reg) ==
    \A n \in DOMAIN reg :
        reg[n].Description # "" /\ reg[n].FilePath \notin Undescribed

C32_NoEmptyDescription ==
    /\ Described(cli.reg)
    /\ \A a \in Addrs : Described(heap[a])

C32_Witness ==
    /\ cli.loaded /\ DOMAIN cli.reg # {}
    /\ ret["c1"].reg # Nil /\ DOMAIN heap[ret["c1"].reg] # {}
    /\ \E d \in Dirs : \E f \in DOMAIN files[d] : files[d][f].data = "mdEmpty"
    /\ \E d \in Dirs : \E f \in DOMAIN files[d] : files[d][f].data = "mdBad"

(***************************************************************************)
(* C33: the origin of a document is the one of the loader that produced    *)
(* it: every document LoadGlobalDocs returns is Global, every document     *)
(* LoadProjectDocs returns is ProjectScoped, and an entry of the registry  *)
(* LoadRegistry returns is ProjectScoped exactly when its file is a file   *)
(* of the project directory.                                               *)
(***************************************************************************)
ReadFrom(dir) == {Join(dir, f) : f \in DOMAIN files[dir]}

C33_OriginSetByLoader ==
    /\ \A i \in 1..Len(cli.globalDocs) :
           /\ cli.globalDocs[i].Source = SourceGlobal
           /\ cli.globalDocs[i].FilePath \in ReadFrom(globalDir)
    /\ \A i \in 1..Len(cli.projectDocs) :
           /\ cli.projectDocs[i].Source = SourceProjectScoped
           /\ cli.projectDocs[i].FilePath \in ReadFrom(projectDir)
    /\ cli.loaded =>
           \A n \in DOMAIN cli.reg :
               cli.reg[n].Source = SourceProjectScoped
                   <=> cli.reg[n].FilePath \in ReadFrom(projectDir)

C33_Witness ==
    /\ cli.loaded
    /\ Len(cli.globalDocs) = 2 /\ Len(cli.projectDocs) = 1
    /\ \E n \in DOMAIN cli.reg : cli.reg[n].Source = SourceProjectScoped
    /\ \E n \in DOMAIN cli.reg : cli.reg[n].Source = SourceGlobal

(***************************************************************************)
(* C34: the signature tells the two source directories apart: when a file  *)
(* lies in one directory at one time and, with the same relative path,     *)
(* modification time and size, in the other directory at another time, the *)
(* two signatures differ; so a Load that completes after a file was moved  *)
(* from one directory to the other since the last completed Load rebuilds. *)
(***************************************************************************)
\* the files with f taken out of directory d
Without(fs, d, f) == [g \in (DOMAIN fs[d]) \ {f} |-> fs[d][g]]

\* since the last successful Load returned, one file went from one source
\* directory to the other, keeping its modification time and size, and
\* nothing else changed
FileMoved ==
    /\ hist.statAtReturn = dirStat
    /\ \E d \in Dirs, e \in Dirs :
          /\ d # e /\ dirStat[d] = "dir" /\ dirStat[e] = "dir"
          /\ \E f \in (DOMAIN hist.atReturn[d]) \ (DOMAIN hist.atReturn[e]) :
                /\ f \in (DOMAIN files[e]) \ (DOMAIN files[d])
                /\ files[e][f].mtime = hist.atReturn[d][f].mtime
                /\ Size(files[e][f].data) = Size(hist.atReturn[d][f].data)
                /\ files[d] = Without(hist.atReturn, d, f)
                /\ hist.atReturn[e] = Without(files, e, f)

C34_SignatureTellsDirsApart ==
    (hist.tracking /\ hist.returned /\ FileMoved) =>
        /\ LET before == computeSignature(hist.statAtReturn, hist.atReturn)
               after == computeSignature(dirStat, files)
           IN (~before.err /\ ~after.err) => before.sig # after.sig
        /\ \A c \in Callers :
              (Returning(c) /\ ~ret[c].err /\ ~hist.changed) => loc[c].rebuilt

(***************************************************************************)
(* C35: the project configuration file is part of what the signature       *)
(* covers: a Load that completes after the file was created, deleted, or   *)
(* given another require list with another size or modification time since *)
(* the last completed Load rebuilds, and returns the registry built with   *)
(* the require list the file has now.                                      *)
(***************************************************************************)
ConfigOf(fs) ==
    IF "config.yaml" \in DOMAIN fs[projectDir]
    THEN <<fs[projectDir]["config.yaml"]>> ELSE <<>>

\* the configuration file was created, deleted or changed since the last
\* successful Load returned, the project directory being there at both times
ConfigChangedSinceReturn ==
    /\ hist.statAtReturn[projectDir] = "dir" /\ dirStat[projectDir] = "dir"
    /\ LET old == ConfigOf(hist.atReturn)
           new == ConfigOf(files)
       IN \/ Len(old) # Len(new)
          \/ /\ old # <<>> /\ new # <<>>
             /\ ConfigYaml(old[1].data) # ConfigYaml(new[1].data)
             /\ \/ old[1].mtime # new[1].mtime
                \/ Size(old[1].data) # Size(new[1].data)

C35_ConfigChangeReloaded ==
    \A c \in Callers :
        (/\ Returning(c) /\ ~ret[c].err /\ ~hist.changed
         /\ hist.tracking /\ hist.returned /\ ConfigChangedSinceReturn) =>
            /\ loc[c].rebuilt
            /\ Result(c) =
                   BuildRegistry(LoadGlobalDocs(dirStat, files, globalDir).docs,
                                 LoadProjectDocs(dirStat, files, projectDir).docs,
                                 LoadProjectConfig(dirStat, files, projectDir).config)

(***************************************************************************)
(* C36: when no two documents of globalDocs and no two documents of        *)
(* projectDocs have the same name, the registry BuildRegistry builds is    *)
(* the same for every order of globalDocs, every order of projectDocs and  *)
(* every require list with the same names, in any order and repeated or    *)
(* not.                                                                    *)
(***************************************************************************)
UniqueNames(docs) ==
    \A i \in 1..Len(docs), j \in 1..Len(docs) :
        docs[i].Name = docs[j].Name => i = j

\* the sequences with the elements of q in another order
Reorderings(q) ==
    {[i \in 1..Len(q) |-> q[f[i]]] :
        f \in {g \in [1..Len(q) -> 1..Len(q)] :
                  \A i \in 1..Len(q), j \in 1..Len(q) : g[i] = g[j] => i = j}}

\* the require lists within the bounds that name the same names
SameRequire ==
    {r \in SeqsUpTo(Names, MaxRequire) : {r[i] : i \in 1..Len(r)} = RequireSet}

C36_OrderIndependent ==
    (phase = "built" /\ UniqueNames(globalDocs) /\ UniqueNames(projectDocs)) =>
        \A g \in Reorderings(globalDocs), p \in Reorderings(projectDocs),
           r \in SameRequire :
            BuildRegistry(g, p, ProjectConfig(r)) = built

C36_Witness ==
    /\ phase = "built" /\ UniqueNames(globalDocs) /\ UniqueNames(projectDocs)
    /\ Len(globalDocs) = 2 /\ Len(projectDocs) = 1
    /\ Cardinality(SameRequire) > 1
    /\ \E i \in 1..Len(globalDocs) :
          /\ ~globalDocs[i].Required
          /\ Has(built, globalDocs[i].Name)
          /\ built[globalDocs[i].Name].Source = SourceGlobal

(***************************************************************************)
(* C37: when the Load made by a list_playbooks or get_playbook call fails, *)
(* the request is answered with the internal-error code (-32603) and the   *)
(* server goes on with the next message; a tool call whose Load succeeds,  *)
(* also after such a failure, is not answered with that code: a            *)
(* list_playbooks, and a get_playbook of a name the registry has, are      *)
(* answered with a result.                                                 *)
(***************************************************************************)
\* the tool call being executed writes its response in this step
Responds == srv.at = "load" /\ srv' # srv

Response == srv'.out[Len(srv'.out)]

C37_LoaderFailureAnswered ==
    [][Responds =>
          /\ srv'.at = "read"
          /\ Len(srv'.out) = Len(srv.out) + 1
          /\ Response.ID = srv.cur.ID
          /\ ret["c1"].err => Response.error /\ Response.Code = -32603
          /\ ~ret["c1"].err =>
                LET params == ParamsTable(srv.cur.Params)
                IN /\ Response.Code # -32603
                   /\ params.Name = "list_playbooks" => ~Response.error
                   /\ (/\ params.Name = "get_playbook"
                       /\ Has(Result("c1"), TrimSpace(params.Arguments["name"].v)))
                         => ~Response.error]_vars

\* the first tool call met a loader that failed, the second one, made after
\* the directory could be read again, was answered with a result
C37_Witness ==
    /\ Len(srv.read) = 2 /\ Len(srv.out) = 2
    /\ srv.read[1].Method = methodToolsCall /\ srv.read[2].Method = methodToolsCall
    /\ srv.out[1] = sendError(srv.read[1].ID, codeInternalError)
    /\ srv.out[2].ID = srv.read[2].ID /\ ~srv.out[2].error
    /\ srv.at = "read" /\ calls = 2

(***************************************************************************)
(* C38: a message without an id never produces a response, whatever its    *)
(* method, version and params: every response written carries the id of a  *)
(* message read with that id, and the number of responses written is the   *)
(* number of messages read that carry an id (less the one of the tool call *)
(* that is being executed).                                                *)
(***************************************************************************)
WithID(q) == SelectSeq(q, HasID)

C38_OnlyIdsAnswered ==
    /\ \A i \in DOMAIN srv.out :
          \E j \in DOMAIN srv.read :
              HasID(srv.read[j]) /\ srv.read[j].ID = srv.out[i].ID
    /\ Len(srv.out) =
          Len(WithID(srv.read)) - (IF srv.at = "load" THEN 1 ELSE 0)

(***************************************************************************)
(* C39: Serve returns without error when the input is at EOF and when an   *)
(* exit notification is read, and reads and writes nothing after that; a   *)
(* shutdown request is answered with an empty result and the server stays  *)
(* in its loop, where later messages are handled as before the shutdown.   *)
(***************************************************************************)
\* a message of version 2.0 with a method, as handleNotification and
\* handleRequest get it
Dispatched(m) == m.text = "object" /\ m.JSONRPC = "2.0" /\ m.Method # ""

C39_ExitAndShutdown ==
    [][/\ \* Serve returns at EOF, without error
          (srv.at = "read" /\ srv'.at \in {"stopped", "failed"} /\ ~Arrives)
             => srv'.at = "stopped" /\ srv'.out = srv.out
       /\ \* an exit notification makes Serve return, without error
          (Arrives /\ Dispatched(Arrived) /\ ~HasID(Arrived)
              /\ Arrived.Method = "exit")
             => srv'.at = "stopped" /\ srv'.out = srv.out
       /\ \* once Serve has returned nothing is read or written
          srv.at \in {"stopped", "failed"} => srv' = srv
       /\ \* shutdown is answered with an empty result, Serve goes on
          (Arrives /\ Dispatched(Arrived) /\ HasID(Arrived)
              /\ Arrived.Method = "shutdown")
             => /\ srv'.out = Append(srv.out, sendResult(Arrived.ID, "", {}))
                /\ srv'.at = "read"
       /\ \* after a shutdown a request is answered, or its tool call begun
          (Arrives /\ Dispatched(Arrived) /\ HasID(Arrived) /\ srv.shuttingDown)
             => \/ /\ srv'.at = "read"
                   /\ Len(srv'.out) = Len(srv.out) + 1
                   /\ srv'.out[Len(srv'.out)].ID = Arrived.ID
                \/ /\ srv'.at = "load"
                   /\ Arrived.Method = "tools/call"]_vars

\* a shutdown was answered, the ping after it too, and Serve returned at EOF
C39_Witness ==
    /\ Len(srv.read) = 2
    /\ srv.read[1].Method = methodShutdown /\ HasID(srv.read[1])
    /\ srv.read[2].Method = methodPing /\ HasID(srv.read[2])
    /\ srv.out = <<sendResult(srv.read[1].ID, "", {}),
                   sendResult(srv.read[2].ID, "", {})>>
    /\ srv.shuttingDown
    /\ srv.at = "stopped"

====
